---- MODULE Spec2Model ----
(***************************************************************************)
(* Model of the Spar shopping app: the fuzzy product search of App.tsx,    *)
(* the shopping-list handlers of App.tsx and the two StoreOptimizer        *)
(* classes (OptimizedShoppingPath.tsx and StoreLayoutVisual.tsx).          *)
(*                                                                         *)
(* Strings are sequences of characters.  A character is a one-element     *)
(* TLA+ string; the precomposed letter U+00E9 is written E_ACUTE and the   *)
(* combining mark U+0301 is written COMBINING_ACUTE.                       *)
(***************************************************************************)
EXTENDS Bags, FiniteSets, Integers, Sequences, TLC

(***************************************************************************)
(* Bounds of the model.                                                    *)
(***************************************************************************)
MaxStrLen == 2
MaxCorridors == 2
MaxListLen == 2
MaxFewCorridors == 1
MaxItems == 2
MaxTypedLen == 1
MaxClock == 2
MaxOverLimit == 2
MaxAisleItems == 4

VARIABLES
    articles,       \* data/articles.json, the catalog
    appCrashed,     \* an exception escaped a render or an effect of App
    constructed,    \* OptimizedShoppingPath: the constructor of StoreOptimizer returned
    productLocations,   \* OptimizedShoppingPath: StoreOptimizer.productLocations
    shoppingList,   \* the argument of the last call of optimizeShoppingPath
    optimizedPath,  \* OptimizedShoppingPath: the value the last call returned
    visualConstructed,      \* StoreLayoutVisual: the constructor of StoreOptimizer returned
    visualProductLocations, \* StoreLayoutVisual: StoreOptimizer.productLocations
    visualPath,     \* StoreLayoutVisual: the value the last call returned
    firstCall,      \* history: the argument and the results of the first call
    searchQuery,    \* App state searchQuery
    searchResults,  \* App state searchResults
    items,          \* App state items, the shopping list
    newItem,        \* App state newItem
    editingId,      \* App state editingId, <<>> for null
    editingText,    \* App state editingText
    showSuggestions,    \* App state showSuggestions
    suggestions,    \* App state suggestions
    now,            \* Date.now()
    scoreQuery,     \* calculateSimilarityScore: argument query
    scoreItem,      \* calculateSimilarityScore: argument item
    scoreResult,    \* calculateSimilarityScore: returned value, or NoScore
    distance,       \* calculateLevenshteinDistance of the two arguments: <<value>>, <<>> before
    normalized,     \* normalizeString of the argument query: <<value>>, <<>> before
    catalogItems,   \* getAllGroceryItems(): <<[threw, items]>>, <<>> before the call
    mounted,        \* StoreLayoutVisual is mounted: currentView is 'shopping-path'
    steps,          \* StoreLayoutVisual: the memoized steps
    activeStep,     \* StoreLayoutVisual state activeStep
    hasStartedNavigation,   \* StoreLayoutVisual state hasStartedNavigation
    lastCompletedStep,      \* StoreLayoutVisual state lastCompletedStep
    storedActiveStep        \* localStorage 'storeLayoutActiveStep': <<value>>, <<>> for none

searchVars == <<searchQuery, searchResults>>
scoreVars == <<scoreQuery, scoreItem, scoreResult>>
pathVars == <<constructed, productLocations, shoppingList, optimizedPath,
              visualConstructed, visualProductLocations, visualPath>>
listVars == <<items, newItem, editingId, editingText, showSuggestions, suggestions, now>>
utilVars == <<distance, normalized, catalogItems>>
navVars == <<mounted, steps, activeStep, hasStartedNavigation, lastCompletedStep,
             storedActiveStep>>
vars == <<articles, appCrashed, searchVars, scoreVars, pathVars, firstCall, listVars, utilVars,
          navVars>>

(***************************************************************************)
(* Characters and JavaScript string primitives.                            *)
(***************************************************************************)
E_ACUTE == "e+acute"
COMBINING_ACUTE == "+acute"

\* the characters the inputs are drawn from: lower case, upper case,
\* a letter with a diacritic, punctuation and white space
InputChars == {"a", "A", "e", E_ACUTE, "-", " "}

Whitespace == {" "}
CombiningMarks == {COMBINING_ACUTE}
LowerAlnum == {"a", "e", "0", "1", "2"}

RECURSIVE Flatten(_)
Flatten(ss) == IF ss = <<>> THEN <<>> ELSE Head(ss) \o Flatten(Tail(ss))

\* String.prototype.toLowerCase
toLowerChar(c) == IF c = "A" THEN "a" ELSE c
toLowerCase(s) == [i \in 1..Len(s) |-> toLowerChar(s[i])]

\* String.prototype.normalize('NFD'): canonical decomposition
NFDChar(c) == IF c = E_ACUTE THEN <<"e", COMBINING_ACUTE>> ELSE <<c>>
NFD(s) == Flatten([i \in 1..Len(s) |-> NFDChar(s[i])])

\* String.prototype.includes
includes(hay, needle) ==
    \E i \in 0..(Len(hay) - Len(needle)) : SubSeq(hay, i + 1, i + Len(needle)) = needle

\* String.prototype.trim
RECURSIVE trimStart(_)
trimStart(s) == IF s # <<>> /\ Head(s) \in Whitespace THEN trimStart(Tail(s)) ELSE s
RECURSIVE trimEnd(_)
trimEnd(s) ==
    IF s # <<>> /\ s[Len(s)] \in Whitespace THEN trimEnd(SubSeq(s, 1, Len(s) - 1)) ELSE s
trim(s) == trimEnd(trimStart(s))

\* String.prototype.split(/\s+/): the pieces between maximal runs of white
\* space; a leading or trailing run leaves an empty piece
RECURSIVE splitWhitespace(_)
splitWhitespace(s) ==
    IF \A i \in 1..Len(s) : s[i] \notin Whitespace
    THEN <<s>>
    ELSE LET i == CHOOSE k \in 1..Len(s) :
                      s[k] \in Whitespace /\ \A m \in 1..(k - 1) : s[m] \notin Whitespace
             rest == trimStart(SubSeq(s, i, Len(s)))
         IN  <<SubSeq(s, 1, i - 1)>> \o splitWhitespace(rest)

(***************************************************************************)
(* Search utility functions of App.tsx.                                    *)
(***************************************************************************)
\* the sequence without its element i
RemoveAtFirst(str, i) == SubSeq(str, 1, i - 1) \o SubSeq(str, i + 1, Len(str))

\* the sequence without its first element that satisfies Test
RemoveFirst(str, Test(_)) ==
    IF \A i \in 1..Len(str) : ~Test(str[i]) THEN str
    ELSE RemoveAtFirst(str, CHOOSE i \in 1..Len(str) :
                                Test(str[i]) /\ \A k \in 1..(i - 1) : ~Test(str[k]))

\* normalizeString with both regular expressions lacking the g flag: each
\* replace removes the first match only
normalizeStringFirstMatchOnly(str) ==
    RemoveFirst(RemoveFirst(NFD(toLowerCase(str)), LAMBDA c : c \in CombiningMarks),
                LAMBDA c : c \notin LowerAlnum \cup Whitespace)

normalizeString(str) ==
    LET lowered == toLowerCase(str)
        decomposed == NFD(lowered)
        noMarks == SelectSeq(decomposed, LAMBDA c : c \notin CombiningMarks)
    IN  SelectSeq(noMarks, LAMBDA c : c \in LowerAlnum \cup Whitespace)

Min3(x, y, z) == IF x <= y /\ x <= z THEN x ELSE IF y <= z THEN y ELSE z

\* calculateLevenshteinDistance with a substitution counted as a deletion and
\* an insertion
calculateLevenshteinDistanceNoSubstitution(a, b) ==
    IF Len(a) = 0 THEN Len(b)
    ELSE IF Len(b) = 0 THEN Len(a)
    ELSE LET matrix[j \in 0..Len(b), i \in 0..Len(a)] ==
                 IF j = 0 THEN i
                 ELSE IF i = 0 THEN j
                 ELSE Min3(matrix[j, i - 1] + 1,
                           matrix[j - 1, i] + 1,
                           matrix[j - 1, i - 1] + (IF a[i] = b[j] THEN 0 ELSE 2))
         IN  matrix[Len(b), Len(a)]

calculateLevenshteinDistance(a, b) ==
    IF Len(a) = 0 THEN Len(b)
    ELSE IF Len(b) = 0 THEN Len(a)
    ELSE LET matrix[j \in 0..Len(b), i \in 0..Len(a)] ==
                 IF j = 0 THEN i
                 ELSE IF i = 0 THEN j
                 ELSE Min3(matrix[j, i - 1] + 1,
                           matrix[j - 1, i] + 1,
                           matrix[j - 1, i - 1] + (IF a[i] = b[j] THEN 0 ELSE 1))
         IN  matrix[Len(b), Len(a)]

\* Scores are rationals n/d with d > 0; JavaScript computes them in double
\* precision, which orders and thresholds them as the exact values do.
Rat(n, d) == [n |-> n, d |-> d]
RatLess(x, y) == x.n * y.d < y.n * x.d
RatEq(x, y) == x.n * y.d = y.n * x.d
RatMax(x, y) == IF RatLess(x, y) THEN y ELSE x

\* calculateSimilarityScore with the substring test ahead of the equality test
calculateSimilarityScoreContainsFirst(query, item) ==
    LET normalizedQuery == normalizeString(query)
        normalizedItem == normalizeString(item)
    IN  IF includes(normalizedItem, normalizedQuery) THEN Rat(4, 5)
        ELSE IF normalizedItem = normalizedQuery THEN Rat(1, 1)
        ELSE Rat(0, 1)

calculateSimilarityScore(query, item) ==
    LET normalizedQuery == normalizeString(query)
        normalizedItem == normalizeString(item)
        queryWords == splitWhitespace(normalizedQuery)
        itemWords == splitWhitespace(normalizedItem)
        wordMatchCount ==
            Len(SelectSeq(queryWords,
                    LAMBDA word : \E k \in 1..Len(itemWords) : includes(itemWords[k], word)))
        \* wordMatchCount / queryWords.length * 0.6
        wordMatchScore == Rat(3 * wordMatchCount, 5 * Len(queryWords))
        maxLength == IF Len(normalizedQuery) >= Len(normalizedItem)
                     THEN Len(normalizedQuery) ELSE Len(normalizedItem)
        \* (maxLength - distance) / maxLength * 0.4
        levenshteinScore ==
            IF maxLength > 0
            THEN Rat(2 * (maxLength - calculateLevenshteinDistance(normalizedQuery, normalizedItem)),
                     5 * maxLength)
            ELSE Rat(0, 1)
    IN  IF normalizedItem = normalizedQuery THEN Rat(1, 1)
        ELSE IF includes(normalizedItem, normalizedQuery) THEN Rat(4, 5)
        ELSE RatMax(wordMatchScore, levenshteinScore)

(***************************************************************************)
(* The catalog (articles.json).  A JavaScript object is the sequence of    *)
(* its entries [key, value] in Object.entries order.  A value is an array  *)
(* of product names (tag "arr"), an object with the optional members       *)
(* categories and positions (tag "sec"; an absent member is the empty      *)
(* sequence, which the code treats as it treats an empty object), or a     *)
(* number (tag "num").                                                     *)
(***************************************************************************)
Arr(names) == [tag |-> "arr", items |-> names, categories |-> <<>>, positions |-> <<>>]
Sec(cats, poss) == [tag |-> "sec", items |-> <<>>, categories |-> cats, positions |-> poss]
Num == [tag |-> "num", items |-> <<>>, categories |-> <<>>, positions |-> <<>>]
Undefined == [tag |-> "undefined", items |-> <<>>, categories |-> <<>>, positions |-> <<>>]
Entry(k, v) == [key |-> k, value |-> v]

SeitenM == <<"S", "e", "i", "t", "e", "n", " ", "M">>
Gang(n) == <<"G", "a", "n", "g", " ", n>>
N == <<"N">>
S == <<"S">>
E == <<"E">>
W == <<"W">>

\* obj[key]
Get(obj, k) ==
    IF \E i \in 1..Len(obj) : obj[i].key = k
    THEN obj[CHOOSE i \in 1..Len(obj) : obj[i].key = k].value
    ELSE Undefined

\* the corridors the catalogs are built from
CorridorPool == {
    \* side aisle, flat category map
    Entry(SeitenM, <<Entry(<<"a">>, Arr(<<<<"a", "e">>>>))>>),
    \* both shelf sides, full-width and positioned categories
    Entry(Gang("1"),
          <<Entry(N, Sec(<<Entry(<<"e">>, Arr(<<<<"A">>, <<"e">>>>))>>, <<>>)),
            Entry(S, Sec(<<>>, <<Entry(E, <<Entry(<<"a">>, Arr(<<<<"a", "-", "e">>>>))>>),
                                  Entry(W, <<Entry(<<"e">>, Arr(<<<<E_ACUTE>>>>))>>)>>))>>),
    \* a product name of the side aisle again, in another case
    Entry(Gang("2"), <<Entry(S, Sec(<<Entry(<<"a">>, Arr(<<<<"A", "e">>>>))>>, <<>>))>>),
    \* corridors without a rank in corridorDistances
    Entry(Gang("7"), <<Entry(N, Sec(<<Entry(<<"a">>, Arr(<<<<"a", "a">>>>))>>, <<>>))>>),
    Entry(Gang("8"), <<Entry(N, Sec(<<Entry(<<"e">>, Arr(<<<<"e", "e">>>>))>>, <<>>))>>),
    \* a flat category map where shelf sides are expected
    Entry(Gang("3"), <<Entry(<<"a">>, Arr(<<<<"e", "a">>>>))>>),
    \* a product list that is not an array
    Entry(Gang("4"), <<Entry(N, Sec(<<Entry(<<"a">>, Num)>>, <<>>))>>),
    \* shelf sides where a flat category map is expected
    Entry(SeitenM, <<Entry(N, Sec(<<Entry(<<"a">>, Arr(<<<<"e", "a">>>>))>>, <<>>))>>)
}

\* the catalogs of up to n corridors with different names
CatalogsUpTo(n) ==
    {c \in UNION {[1..k -> CorridorPool] : k \in 1..n} :
        \A i, j \in 1..Len(c) : i # j => c[i].key # c[j].key}

Catalogs == CatalogsUpTo(MaxCorridors)

(***************************************************************************)
(* getAllGroceryItems (App.tsx).  A traversal returns [threw, items]: a    *)
(* call of forEach on a value that is not an array raises a TypeError,     *)
(* which ends the whole traversal.                                         *)
(***************************************************************************)
Threw == [threw |-> TRUE, items |-> <<>>]
Returned(xs) == [threw |-> FALSE, items |-> xs]
AndThen(r1, r2) == IF r1.threw \/ r2.threw THEN Threw ELSE Returned(r1.items \o r2.items)

\* template literal ${index}
RECURSIVE IndexToString(_)
IndexToString(n) ==
    LET digit == <<"0", "1", "2", "3", "4", "5", "6", "7", "8", "9">>
    IN  IF n < 10 THEN <<digit[n + 1]>> ELSE IndexToString(n \div 10) \o <<digit[(n % 10) + 1]>>

GroceryItem(id, name, category, gang) ==
    [id |-> id, name |-> name, category |-> category, gang |-> gang]

\* items.forEach((itemName, index) => allItems.push({...})) for one category
GroceryItemsOfList(idPrefix, categoryKey, gangKey, list) ==
    IF list.tag # "arr" THEN Threw
    ELSE Returned([i \in 1..Len(list.items) |->
                      GroceryItem(idPrefix \o <<"_">> \o categoryKey \o <<"_">> \o IndexToString(i - 1),
                                  list.items[i], categoryKey, gangKey)])

RECURSIVE GroceryItemsOfCategories(_, _, _)
GroceryItemsOfCategories(idPrefix, gangKey, categories) ==
    IF categories = <<>> THEN Returned(<<>>)
    ELSE AndThen(GroceryItemsOfList(idPrefix, Head(categories).key, gangKey, Head(categories).value),
                 GroceryItemsOfCategories(idPrefix, gangKey, Tail(categories)))

RECURSIVE GroceryItemsOfPositions(_, _, _)
GroceryItemsOfPositions(idPrefix, gangKey, positions) ==
    IF positions = <<>> THEN Returned(<<>>)
    ELSE AndThen(GroceryItemsOfCategories(idPrefix \o <<"_">> \o Head(positions).key, gangKey,
                                          Head(positions).value),
                 GroceryItemsOfPositions(idPrefix, gangKey, Tail(positions)))

GroceryItemsOfSection(gangKey, gangData, section) ==
    LET sectionData == Get(gangData, section)
        idPrefix == gangKey \o <<"_">> \o section
    IN  IF sectionData.tag = "undefined" THEN Returned(<<>>)
        ELSE AndThen(GroceryItemsOfCategories(idPrefix, gangKey, sectionData.categories),
                     GroceryItemsOfPositions(idPrefix, gangKey, sectionData.positions))

RECURSIVE GroceryItemsOfDirectArrays(_, _)
GroceryItemsOfDirectArrays(gangKey, gangData) ==
    IF gangData = <<>> THEN Returned(<<>>)
    ELSE LET key == Head(gangData).key
             value == Head(gangData).value
         IN  AndThen(IF key # N /\ key # S /\ value.tag = "arr"
                     THEN GroceryItemsOfList(gangKey, key, gangKey, value)
                     ELSE Returned(<<>>),
                     GroceryItemsOfDirectArrays(gangKey, Tail(gangData)))

GroceryItemsOfGang(gangKey, gangData) ==
    AndThen(AndThen(GroceryItemsOfSection(gangKey, gangData, N),
                    GroceryItemsOfSection(gangKey, gangData, S)),
            GroceryItemsOfDirectArrays(gangKey, gangData))

RECURSIVE getAllGroceryItems(_)
getAllGroceryItems(articlesData) ==
    IF articlesData = <<>> THEN Returned(<<>>)
    ELSE AndThen(GroceryItemsOfGang(Head(articlesData).key, Head(articlesData).value),
                 getAllGroceryItems(Tail(articlesData)))

(***************************************************************************)
(* searchProducts (App.tsx).                                               *)
(***************************************************************************)
SearchLimit == 20

\* nameScore + categoryScore, with weights 0.7 and 0.3
totalScore(query, item) ==
    LET nameScore == calculateSimilarityScore(query, item.name)
        categoryScore == calculateSimilarityScore(query, item.category)
    IN  Rat(7 * nameScore.n * categoryScore.d + 3 * categoryScore.n * nameScore.d,
            10 * nameScore.d * categoryScore.d)

MinimumScore == Rat(1, 5)

\* filter(({ score }) => score >= 0.2)
AboveThresholdInclusive(scored) == ~RatLess(scored.score, MinimumScore)

\* filter(({ score }) => score > 0.2)
AboveThreshold(scored) == RatLess(MinimumScore, scored.score)

\* Array.prototype.sort((a, b) => b.score - a.score): stable, descending
RECURSIVE InsertByScore(_, _)
InsertByScore(sorted, x) ==
    IF sorted = <<>> THEN <<x>>
    ELSE IF RatLess(Head(sorted).score, x.score) THEN <<x>> \o sorted
    ELSE <<Head(sorted)>> \o InsertByScore(Tail(sorted), x)

RECURSIVE SortByScoreFrom(_, _)
SortByScoreFrom(sorted, rest) ==
    IF rest = <<>> THEN sorted
    ELSE SortByScoreFrom(InsertByScore(sorted, Head(rest)), Tail(rest))

\* the array left in its order
SortByScoreOmitted(scoredItems) == scoredItems

SortByScore(scoredItems) == SortByScoreFrom(<<>>, scoredItems)

\* allItems.map(item => ({item, score}))
ScoredItems(query, allItems) ==
    [i \in 1..Len(allItems) |->
        [item |-> allItems[i], score |-> totalScore(query, allItems[i])]]

\* the array as it is, not cut
SliceFirstOmitted(seq, n) == seq

\* .slice(0, n)
SliceFirst(seq, n) == IF Len(seq) <= n THEN seq ELSE SubSeq(seq, 1, n)

\* .map(({item}) => item)
ItemsOfScored(scored) == [i \in 1..Len(scored) |-> scored[i].item]

searchProducts(query, allItems) ==
    IF trim(query) = <<>> THEN <<>>
    ELSE SliceFirst(ItemsOfScored(SortByScore(SelectSeq(ScoredItems(query, allItems),
                                                        AboveThreshold))),
                    SearchLimit)

(***************************************************************************)
(* StoreOptimizer of OptimizedShoppingPath.tsx.                            *)
(***************************************************************************)
\* UTF-16 code units, which order strings under < and >
CharCode(c) ==
    CASE c = " " -> 32 [] c = "-" -> 45 [] c = "0" -> 48 [] c = "1" -> 49 [] c = "2" -> 50
      [] c = "A" -> 65 [] c = "E" -> 69 [] c = "N" -> 78 [] c = "S" -> 83 [] c = "W" -> 87
      [] c = "_" -> 95 [] c = "a" -> 97 [] c = "e" -> 101
      [] c = E_ACUTE -> 233 [] c = COMBINING_ACUTE -> 769

\* a < b on strings
RECURSIVE StringLess(_, _)
StringLess(a, b) ==
    IF b = <<>> THEN FALSE
    ELSE IF a = <<>> THEN TRUE
    ELSE IF Head(a) = Head(b) THEN StringLess(Tail(a), Tail(b))
    ELSE CharCode(Head(a)) < CharCode(Head(b))

corridorDistances ==
    (SeitenM :> 1) @@ (Gang("1") :> 2) @@ (Gang("2") :> 3) @@ (Gang("3") :> 4)
        @@ (Gang("4") :> 5) @@ (Gang("5") :> 6) @@ (Gang("6") :> 7)

\* corridorDistances[corridor], <<>> standing for undefined
DistanceOf(corridor) ==
    IF corridor \in DOMAIN corridorDistances THEN <<corridorDistances[corridor]>> ELSE <<>>

\* corridorDistances[corridor] || 0
DistanceOrZero(corridor) ==
    IF corridor \in DOMAIN corridorDistances THEN corridorDistances[corridor] ELSE 0

Location(corridor, direction, position, category) ==
    [corridor |-> corridor, direction |-> direction, position |-> position,
     category |-> category, distanceFromStart |-> DistanceOf(corridor)]

\* Map.prototype.has, get and set; a Map keeps its keys in the order of
\* their first insertion
MapHas(map, k) == \E i \in 1..Len(map) : map[i].key = k
MapGet(map, k) == map[CHOOSE i \in 1..Len(map) : map[i].key = k].value
\* a set that keeps the value of a key that the Map already has
MapSetKeepingFirst(map, k, v) == IF MapHas(map, k) THEN map ELSE Append(map, Entry(k, v))

MapSet(map, k, v) ==
    IF MapHas(map, k)
    THEN [i \in 1..Len(map) |-> IF map[i].key = k THEN Entry(k, v) ELSE map[i]]
    ELSE Append(map, Entry(k, v))

RECURSIVE MapSetAll(_, _)
MapSetAll(map, entries) ==
    IF entries = <<>> THEN map
    ELSE MapSetAll(MapSet(map, Head(entries).key, Head(entries).value), Tail(entries))

\* products.forEach(product => this.productLocations.set(product.toLowerCase(), {...}))
IndexProducts(corridor, direction, position, category, products) ==
    IF products.tag # "arr" THEN Threw
    ELSE Returned([i \in 1..Len(products.items) |->
                      Entry(toLowerCase(products.items[i]),
                            Location(corridor, direction, position, category))])

RECURSIVE IndexCategories(_, _, _, _)
IndexCategories(corridor, direction, position, categories) ==
    IF categories = <<>> THEN Returned(<<>>)
    ELSE AndThen(IndexProducts(corridor, direction, position,
                               Head(categories).key, Head(categories).value),
                 IndexCategories(corridor, direction, position, Tail(categories)))

RECURSIVE IndexPositions(_, _, _)
IndexPositions(corridor, direction, positions) ==
    IF positions = <<>> THEN Returned(<<>>)
    ELSE AndThen(IndexCategories(corridor, direction, Head(positions).key, Head(positions).value),
                 IndexPositions(corridor, direction, Tail(positions)))

\* the branch for "Seiten M": every value of the corridor is a product list
RECURSIVE IndexSideAisle(_, _)
IndexSideAisle(corridor, corridorData) ==
    IF corridorData = <<>> THEN Returned(<<>>)
    ELSE AndThen(IndexProducts(corridor, <<>>, <<>>, Head(corridorData).key, Head(corridorData).value),
                 IndexSideAisle(corridor, Tail(corridorData)))

\* the branch for the other corridors: every key is a direction; positioned
\* categories are indexed before full-width categories
RECURSIVE IndexDirections(_, _)
IndexDirections(corridor, corridorData) ==
    IF corridorData = <<>> THEN Returned(<<>>)
    ELSE LET direction == Head(corridorData).key
             directionData == Head(corridorData).value
         IN  AndThen(AndThen(IndexPositions(corridor, direction, directionData.positions),
                             IndexCategories(corridor, direction, <<>>, directionData.categories)),
                     IndexDirections(corridor, Tail(corridorData)))

RECURSIVE IndexEntries(_)
IndexEntries(storeData) ==
    IF storeData = <<>> THEN Returned(<<>>)
    ELSE LET corridor == Head(storeData).key
             corridorData == Head(storeData).value
         IN  AndThen(IF corridor = SeitenM
                     THEN IndexSideAisle(corridor, corridorData)
                     ELSE IndexDirections(corridor, corridorData),
                     IndexEntries(Tail(storeData)))

\* the constructor: [threw, map], map being this.productLocations
createProductIndex(storeData) ==
    LET entries == IndexEntries(storeData)
    IN  IF entries.threw THEN [threw |-> TRUE, map |-> <<>>]
        ELSE [threw |-> FALSE, map |-> MapSetAll(<<>>, entries.items)]

NoLocation == [found |-> FALSE, location |-> Location(<<>>, <<>>, <<>>, <<>>)]

\* findProductLocation: [found, location]
\* findProductLocation with the loop over the entries ahead of the lookup of
\* the lowercased text
findProductLocationPartialFirst(product) ==
    LET productLower == toLowerCase(product)
        map == productLocations
        partial(i) == \/ includes(productLower, map[i].key)
                      \/ includes(map[i].key, productLower)
    IN  IF \E i \in 1..Len(map) : partial(i)
        THEN [found |-> TRUE,
              location |-> map[CHOOSE i \in 1..Len(map) :
                                   partial(i) /\ \A j \in 1..(i - 1) : ~partial(j)].value]
        ELSE IF MapHas(map, productLower)
        THEN [found |-> TRUE, location |-> MapGet(map, productLower)]
        ELSE NoLocation

findProductLocation(product) ==
    LET productLower == toLowerCase(product)
        map == productLocations
        partial(i) == \/ includes(productLower, map[i].key)
                      \/ includes(map[i].key, productLower)
    IN  IF MapHas(map, productLower)
        THEN [found |-> TRUE, location |-> MapGet(map, productLower)]
        ELSE IF \E i \in 1..Len(map) : partial(i)
        THEN [found |-> TRUE,
              location |-> map[CHOOSE i \in 1..Len(map) :
                                   partial(i) /\ \A j \in 1..(i - 1) : ~partial(j)].value]
        ELSE NoLocation

\* organizeItemsByCorridor with every item after the first of a corridor lost
RECURSIVE organizeItemsByCorridorFirstOnly(_)
organizeItemsByCorridorFirstOnly(items_) ==
    IF items_ = <<>> THEN <<>>
    ELSE LET corridorItems == organizeItemsByCorridorFirstOnly(SubSeq(items_, 1, Len(items_) - 1))
             last == items_[Len(items_)]
         IN  IF MapHas(corridorItems, last.location.corridor) THEN corridorItems
             ELSE MapSet(corridorItems, last.location.corridor, <<last>>)

\* organizeItemsByCorridor: Map from corridor to its [item, location] pairs
RECURSIVE organizeItemsByCorridor(_)
organizeItemsByCorridor(items_) ==
    IF items_ = <<>> THEN <<>>
    ELSE LET corridorItems == organizeItemsByCorridor(SubSeq(items_, 1, Len(items_) - 1))
             last == items_[Len(items_)]
             corridor == last.location.corridor
         IN  IF MapHas(corridorItems, corridor)
             THEN MapSet(corridorItems, corridor, Append(MapGet(corridorItems, corridor), last))
             ELSE MapSet(corridorItems, corridor, <<last>>)

MapKeys(map) == [i \in 1..Len(map) |-> map[i].key]

\* Array.prototype.sort with the comparator
\* (corridorDistances[a] || 0) - (corridorDistances[b] || 0): stable
RECURSIVE InsertByDistance(_, _)
InsertByDistance(sorted, corridor) ==
    IF sorted = <<>> THEN <<corridor>>
    ELSE IF DistanceOrZero(corridor) < DistanceOrZero(Head(sorted)) THEN <<corridor>> \o sorted
    ELSE <<Head(sorted)>> \o InsertByDistance(Tail(sorted), corridor)

\* the keys left in the insertion order of the Map
SortCorridorsOmitted(corridors) == corridors

RECURSIVE SortCorridors(_)
SortCorridors(corridors) ==
    IF corridors = <<>> THEN <<>>
    ELSE InsertByDistance(SortCorridors(SubSeq(corridors, 1, Len(corridors) - 1)),
                          corridors[Len(corridors)])

\* items near the east and near the west entrance of a corridor
EastItems(items_) ==
    Len(SelectSeq(items_, LAMBDA x : x.location.position = E \/ x.location.position = <<>>))
\* the west count taken with the test of the east count
WestItemsAsEast(items_) == EastItems(items_)

WestItems(items_) ==
    Len(SelectSeq(items_, LAMBDA x : x.location.position = W \/ x.location.position = <<>>))

\* the forEach of determineCorridorEntryPoints, currentPosition carried along
RECURSIVE EntryPointsFrom(_, _, _)
EntryPointsFrom(sortedCorridors, corridorItems, currentPosition) ==
    IF sortedCorridors = <<>> THEN <<>>
    ELSE LET corridor == Head(sortedCorridors)
             items_ == MapGet(corridorItems, corridor)
             eastItems == EastItems(items_)
             westItems == WestItems(items_)
             \* eastItems > westItems * 1.5, westItems > eastItems * 1.5
             fromEast == IF 2 * eastItems > 3 * westItems THEN TRUE
                         ELSE IF 2 * westItems > 3 * eastItems THEN FALSE
                         ELSE currentPosition = "east"
         IN  IF corridor = SeitenM
             THEN <<Entry(corridor, TRUE)>>
                      \o EntryPointsFrom(Tail(sortedCorridors), corridorItems, currentPosition)
             ELSE <<Entry(corridor, fromEast)>>
                      \o EntryPointsFrom(Tail(sortedCorridors), corridorItems,
                                         IF fromEast THEN "west" ELSE "east")

\* determineCorridorEntryPoints with currentPosition never updated: a balanced
\* corridor is entered from the east
determineCorridorEntryPointsFromEast(corridorItems) ==
    [i \in 1..Len(SortCorridors(MapKeys(corridorItems))) |->
        EntryPointsFrom(<<SortCorridors(MapKeys(corridorItems))[i]>>, corridorItems, "east")[1]]

\* determineCorridorEntryPoints with currentPosition kept from the call before
determineCorridorEntryPointsCarried(corridorItems) ==
    LET corridors == optimizedPath.corridors
        currentPosition ==
            IF corridors = <<>> THEN "east"
            ELSE IF corridors[Len(corridors)].exitPoint = "West" THEN "west" ELSE "east"
    IN  EntryPointsFrom(SortCorridors(MapKeys(corridorItems)), corridorItems, currentPosition)

determineCorridorEntryPoints(corridorItems) ==
    EntryPointsFrom(SortCorridors(MapKeys(corridorItems)), corridorItems, "east")

\* the comparator of items.sort is negative: a sorts before b
\* the comparator with the side of direction N first whatever the entry is
ItemBeforeNorthFirst(a, b, fromEast) ==
    IF StringLess(a.location.category, b.location.category) THEN TRUE
    ELSE IF StringLess(b.location.category, a.location.category) THEN FALSE
    ELSE a.location.direction = N /\ b.location.direction # N

ItemBefore(a, b, fromEast) ==
    LET locA == a.location
        locB == b.location
        aSide == IF fromEast THEN locA.direction = N ELSE locA.direction = S
        bSide == IF fromEast THEN locB.direction = N ELSE locB.direction = S
    IN  IF StringLess(locA.category, locB.category) THEN TRUE
        ELSE IF StringLess(locB.category, locA.category) THEN FALSE
        ELSE aSide /\ ~bSide

RECURSIVE InsertItem(_, _, _)
InsertItem(sorted, x, fromEast) ==
    IF sorted = <<>> THEN <<x>>
    ELSE IF ItemBefore(x, Head(sorted), fromEast) THEN <<x>> \o sorted
    ELSE <<Head(sorted)>> \o InsertItem(Tail(sorted), x, fromEast)

\* items.sort(...): stable
RECURSIVE SortItems(_, _)
SortItems(items_, fromEast) ==
    IF items_ = <<>> THEN <<>>
    ELSE InsertItem(SortItems(SubSeq(items_, 1, Len(items_) - 1), fromEast),
                    items_[Len(items_)], fromEast)

CorridorPath(corridor, fromEast, sortedItems) ==
    [name |-> corridor,
     entryPoint |-> IF fromEast THEN "East" ELSE "West",
     exitPoint |-> IF fromEast THEN "West" ELSE "East",
     items |-> [i \in 1..Len(sortedItems) |->
                   [name |-> sortedItems[i].item,
                    category |-> sortedItems[i].location.category,
                    location |-> [corridor |-> sortedItems[i].location.corridor,
                                  direction |-> sortedItems[i].location.direction,
                                  position |-> sortedItems[i].location.position,
                                  side |-> IF sortedItems[i].location.direction = N
                                           THEN "Right" ELSE "Left"]]]]

\* the items of the shopping list with the result of findProductLocation
\* an empty list looked up as the list of one empty text
LocatedBlankForEmpty(shoppingList_) ==
    LET list == IF shoppingList_ = <<>> THEN <<<<>>>> ELSE shoppingList_
    IN  [i \in 1..Len(list) |->
            [item |-> list[i], found |-> findProductLocation(list[i]).found,
             location |-> findProductLocation(list[i]).location]]

Located(shoppingList_) ==
    [i \in 1..Len(shoppingList_) |->
        [item |-> shoppingList_[i], found |-> findProductLocation(shoppingList_[i]).found,
         location |-> findProductLocation(shoppingList_[i]).location]]

\* every item taken as found
ItemsWithLocationsUnfiltered(located) == located

\* the items pushed onto itemsWithLocations
ItemsWithLocations(located) == SelectSeq(located, LAMBDA x : x.found)

optimizeShoppingPath(shoppingList_) ==
    LET located == Located(shoppingList_)
        itemsWithLocations == ItemsWithLocations(located)
        notFound == SelectSeq(located, LAMBDA x : ~x.found)
        corridorItems == organizeItemsByCorridor(itemsWithLocations)
        entryPoints == determineCorridorEntryPoints(corridorItems)
        sortedCorridors == SortCorridors(MapKeys(corridorItems))
    IN  [corridors |->
             [i \in 1..Len(sortedCorridors) |->
                 LET corridor == sortedCorridors[i]
                     fromEast == MapGet(entryPoints, corridor)
                 IN  CorridorPath(corridor, fromEast,
                                  SortItems(MapGet(corridorItems, corridor), fromEast))],
         notFoundItems |-> [i \in 1..Len(notFound) |-> notFound[i].item]]

(***************************************************************************)
(* StoreOptimizer of StoreLayoutVisual.tsx.                                *)
(***************************************************************************)
LocationVisual(corridor, direction, position, category) ==
    [corridor |-> corridor, direction |-> direction, position |-> position,
     category |-> category]

IndexProductsVisual(corridor, direction, position, category, products) ==
    IF products.tag # "arr" THEN Threw
    ELSE Returned([i \in 1..Len(products.items) |->
                      Entry(toLowerCase(products.items[i]),
                            LocationVisual(corridor, direction, position, category))])

RECURSIVE IndexCategoriesVisual(_, _, _, _)
IndexCategoriesVisual(corridor, direction, position, categories) ==
    IF categories = <<>> THEN Returned(<<>>)
    ELSE AndThen(IndexProductsVisual(corridor, direction, position,
                                     Head(categories).key, Head(categories).value),
                 IndexCategoriesVisual(corridor, direction, position, Tail(categories)))

RECURSIVE IndexPositionsVisual(_, _, _)
IndexPositionsVisual(corridor, direction, positions) ==
    IF positions = <<>> THEN Returned(<<>>)
    ELSE AndThen(IndexCategoriesVisual(corridor, direction, Head(positions).key,
                                       Head(positions).value),
                 IndexPositionsVisual(corridor, direction, Tail(positions)))

RECURSIVE IndexSideAisleVisual(_, _)
IndexSideAisleVisual(corridor, corridorData) ==
    IF corridorData = <<>> THEN Returned(<<>>)
    ELSE AndThen(IndexProductsVisual(corridor, <<>>, <<>>,
                                     Head(corridorData).key, Head(corridorData).value),
                 IndexSideAisleVisual(corridor, Tail(corridorData)))

\* ['N', 'S'].forEach: full-width categories are indexed before positioned ones
IndexSectionVisual(corridor, corridorData, direction) ==
    LET sectionData == Get(corridorData, direction)
    IN  IF sectionData.tag = "undefined" THEN Returned(<<>>)
        ELSE AndThen(IndexCategoriesVisual(corridor, direction, <<>>, sectionData.categories),
                     IndexPositionsVisual(corridor, direction, sectionData.positions))

RECURSIVE IndexEntriesVisual(_)
IndexEntriesVisual(storeData) ==
    IF storeData = <<>> THEN Returned(<<>>)
    ELSE LET corridor == Head(storeData).key
             corridorData == Head(storeData).value
         IN  AndThen(IF corridor = SeitenM
                     THEN IndexSideAisleVisual(corridor, corridorData)
                     ELSE AndThen(IndexSectionVisual(corridor, corridorData, N),
                                  IndexSectionVisual(corridor, corridorData, S)),
                     IndexEntriesVisual(Tail(storeData)))

\* the constructor: [threw, map], map being this.productLocations
buildProductLocationMap(storeData) ==
    LET entries == IndexEntriesVisual(storeData)
    IN  IF entries.threw THEN [threw |-> TRUE, map |-> <<>>]
        ELSE [threw |-> FALSE, map |-> MapSetAll(<<>>, entries.items)]

NoLocationVisual == [found |-> FALSE, location |-> LocationVisual(<<>>, <<>>, <<>>, <<>>)]

\* findProductLocation: [found, location], found being FALSE for null
findProductLocationVisual(product) ==
    LET productLower == toLowerCase(product)
        map == visualProductLocations
        partial(i) == \/ includes(productLower, map[i].key)
                      \/ includes(map[i].key, productLower)
    IN  IF MapHas(map, productLower)
        THEN [found |-> TRUE, location |-> MapGet(map, productLower)]
        ELSE IF \E i \in 1..Len(map) : partial(i)
        THEN [found |-> TRUE,
              location |-> map[CHOOSE i \in 1..Len(map) :
                                   partial(i) /\ \A j \in 1..(i - 1) : ~partial(j)].value]
        ELSE NoLocationVisual

\* sortedCorridors.forEach((corridor, index) => ...), currentPosition carried along
RECURSIVE EntryPointsVisualFrom(_, _, _, _)
EntryPointsVisualFrom(sortedCorridors, index, corridorItems, currentPosition) ==
    IF index > Len(sortedCorridors) THEN <<>>
    ELSE LET corridor == sortedCorridors[index]
             items_ == MapGet(corridorItems, corridor)
             eastItems == EastItems(items_)
             westItems == WestItems(items_)
             hasNext == index < Len(sortedCorridors) /\ sortedCorridors[index + 1] # SeitenM
             nextItems == MapGet(corridorItems, sortedCorridors[index + 1])
             nextEastItems == EastItems(nextItems)
             nextWestItems == WestItems(nextItems)
             enterFromEast ==
                 IF eastItems > westItems * 2 THEN TRUE
                 ELSE IF westItems > eastItems * 2 THEN FALSE
                 ELSE IF hasNext
                 THEN \* nextEastItems > nextWestItems * 1.5, and the reverse
                      IF 2 * nextEastItems > 3 * nextWestItems THEN currentPosition = "west"
                      ELSE IF 2 * nextWestItems > 3 * nextEastItems THEN currentPosition = "east"
                      ELSE currentPosition = "east"
                 ELSE currentPosition = "east"
         IN  IF corridor = SeitenM
             THEN <<Entry(corridor, TRUE)>>
                      \o EntryPointsVisualFrom(sortedCorridors, index + 1, corridorItems, "west")
             ELSE <<Entry(corridor, enterFromEast)>>
                      \o EntryPointsVisualFrom(sortedCorridors, index + 1, corridorItems,
                                               IF enterFromEast THEN "west" ELSE "east")

LocatedVisual(shoppingList_) ==
    [i \in 1..Len(shoppingList_) |->
        [item |-> shoppingList_[i], found |-> findProductLocationVisual(shoppingList_[i]).found,
         location |-> findProductLocationVisual(shoppingList_[i]).location]]

optimizeShoppingPathVisual(shoppingList_) ==
    LET itemsWithLocations == SelectSeq(LocatedVisual(shoppingList_), LAMBDA x : x.found)
        corridorItems == organizeItemsByCorridor(itemsWithLocations)
        sortedCorridors == SortCorridors(MapKeys(corridorItems))
        entryPoints == EntryPointsVisualFrom(sortedCorridors, 1, corridorItems, "east")
    IN  [i \in 1..Len(sortedCorridors) |->
            [name |-> sortedCorridors[i],
             entryPoint |-> IF MapGet(entryPoints, sortedCorridors[i]) THEN "East" ELSE "West",
             exitPoint |-> IF MapGet(entryPoints, sortedCorridors[i]) THEN "West" ELSE "East"]]

(***************************************************************************)
(* Inputs.                                                                 *)
(***************************************************************************)
StringsUpTo(n) == UNION {[1..k -> InputChars] : k \in 0..n}

NoScore == Rat(0, 0)

(***************************************************************************)
(* calculateSimilarityScore applied to any two strings.                    *)
(***************************************************************************)
RemoveAt(seq, i) == SubSeq(seq, 1, i - 1) \o SubSeq(seq, i + 1, Len(seq))

\* the texts the shopping lists are made of: product names of the catalogs,
\* a name in another case, a part of a name and a text that nothing matches
ShoppingTexts ==
    {<<"a", "e">>, <<"A">>, <<E_ACUTE>>, <<"a", "-", "e">>, <<"a", "a">>, <<"e", "e">>,
     <<"-", "-">>}

NoPath == [corridors |-> <<>>, notFoundItems |-> <<>>]
NoCall == [called |-> FALSE, list |-> <<>>, path |-> NoPath, visual |-> <<>>, others |-> FALSE]

\* none of the utility functions has been called
InitNoUtil ==
    /\ distance = <<>>
    /\ normalized = <<>>
    /\ catalogItems = <<>>

\* StoreLayoutVisual not mounted yet, nothing in localStorage
InitNoNav ==
    /\ mounted = FALSE
    /\ steps = <<>>
    /\ activeStep = 0
    /\ hasStartedNavigation = FALSE
    /\ lastCompletedStep = -1
    /\ storedActiveStep = <<>>

InitApp ==
    /\ appCrashed = FALSE
    /\ searchQuery = <<>>
    /\ searchResults = <<>>
    /\ items = <<>>
    /\ newItem = <<>>
    /\ editingId = <<>>
    /\ editingText = <<>>
    /\ showSuggestions = FALSE
    /\ suggestions = <<>>
    /\ now = 1

\* no optimizer
InitNoPath ==
    /\ constructed = FALSE
    /\ productLocations = <<>>
    /\ shoppingList = <<>>
    /\ optimizedPath = NoPath
    /\ visualConstructed = FALSE
    /\ visualProductLocations = <<>>
    /\ visualPath = <<>>
    /\ firstCall = NoCall

InitScore ==
    /\ articles = <<>>
    /\ InitApp
    /\ InitNoPath
    /\ scoreQuery \in StringsUpTo(MaxStrLen)
    /\ scoreItem \in StringsUpTo(MaxStrLen)
    /\ scoreResult = NoScore
    /\ InitNoUtil
    /\ InitNoNav

CallSimilarityScore ==
    /\ scoreResult = NoScore
    /\ scoreResult' = calculateSimilarityScore(scoreQuery, scoreItem)
    /\ UNCHANGED <<articles, appCrashed, searchVars, pathVars, firstCall, listVars, utilVars, navVars,
                   scoreQuery, scoreItem>>

NextScore == CallSimilarityScore

SpecScore == InitScore /\ [][NextScore]_vars

\* C10: two strings with equal normalized forms score exactly 1
ExactMatchScoresOne ==
    (scoreResult # NoScore /\ normalizeString(scoreQuery) = normalizeString(scoreItem))
        => scoreResult = Rat(1, 1)

\* two different strings, one with a diacritic and upper case, the other
\* plain, have been scored
ExactMatchScoresOneWitness ==
    /\ scoreResult # NoScore
    /\ scoreQuery = <<"a", "e">>
    /\ scoreItem = <<"A", E_ACUTE>>
    /\ normalizeString(scoreQuery) = normalizeString(scoreItem)

(***************************************************************************)
(* Product search: the searchQuery effect of App.                          *)
(***************************************************************************)
InitSearch ==
    /\ articles \in CatalogsUpTo(MaxFewCorridors)
    /\ InitApp
    /\ InitNoPath
    /\ scoreQuery = <<>>
    /\ scoreItem = <<>>
    /\ scoreResult = NoScore
    /\ InitNoUtil
    /\ InitNoNav

\* setSearchQuery(query) followed by the effect on [searchQuery]
SetSearchQuery(query) ==
    /\ ~appCrashed
    /\ searchQuery' = query
    /\ IF Len(trim(query)) > 0
       THEN LET allGroceryItems == getAllGroceryItems(articles)
            IN  IF allGroceryItems.threw
                THEN appCrashed' = TRUE /\ UNCHANGED searchResults
                ELSE /\ searchResults' = searchProducts(query, allGroceryItems.items)
                     /\ UNCHANGED appCrashed
       ELSE searchResults' = <<>> /\ UNCHANGED appCrashed
    /\ UNCHANGED <<articles, scoreVars, utilVars, navVars, pathVars, firstCall, listVars>>

\* the search box is edited one key at a time (onChange of the input)
NextSearch ==
    \/ \E c \in InputChars :
           Len(searchQuery) < MaxStrLen /\ SetSearchQuery(Append(searchQuery, c))
    \/ searchQuery # <<>> /\ SetSearchQuery(SubSeq(searchQuery, 1, Len(searchQuery) - 1))

SpecSearch == InitSearch /\ [][NextSearch]_vars

\* C9: no search result has a combined score of 0.2 or less, and the results
\* are in non-increasing order of combined score
SearchResultsAboveThresholdAndSorted ==
    /\ \A i \in 1..Len(searchResults) :
           RatLess(MinimumScore, totalScore(searchQuery, searchResults[i]))
    /\ \A i, j \in 1..Len(searchResults) :
           i < j => ~RatLess(totalScore(searchQuery, searchResults[i]),
                             totalScore(searchQuery, searchResults[j]))

\* a search that dropped a product and moved a later product of the catalog
\* ahead of an earlier one with a smaller score
SearchResultsWitness ==
    /\ ~appCrashed
    /\ Len(searchResults) >= 2
    /\ LET all == getAllGroceryItems(articles).items
           pos(item) == CHOOSE k \in 1..Len(all) : all[k] = item
       IN  /\ Len(all) > Len(searchResults)
           /\ pos(searchResults[1]) > pos(searchResults[2])
           /\ RatLess(totalScore(searchQuery, searchResults[2]),
                      totalScore(searchQuery, searchResults[1]))

(***************************************************************************)
(* The two optimizers, constructed on a catalog and called with shopping   *)
(* lists.                                                                  *)
(***************************************************************************)
\* the state after the construction of both optimizers on the catalog
Constructed ==
    /\ InitApp
    /\ scoreQuery = <<>>
    /\ scoreItem = <<>>
    /\ scoreResult = NoScore
    /\ InitNoUtil
    /\ InitNoNav
    /\ constructed = ~createProductIndex(articles).threw
    /\ productLocations = createProductIndex(articles).map
    /\ visualConstructed = ~buildProductLocationMap(articles).threw
    /\ visualProductLocations = buildProductLocationMap(articles).map
    /\ shoppingList = <<>>
    /\ optimizedPath = NoPath
    /\ visualPath = <<>>
    /\ firstCall = NoCall

InitPath ==
    /\ articles \in Catalogs
    /\ Constructed

\* a call that also stores the location it found for the first entry of the
\* list under the text of that entry
OptimizeCallCaching(list) ==
    /\ constructed
    /\ visualConstructed
    /\ shoppingList' = list
    /\ optimizedPath' = optimizeShoppingPath(list)
    /\ visualPath' = optimizeShoppingPathVisual(list)
    /\ productLocations' =
           IF list # <<>> /\ findProductLocation(list[1]).found
           THEN MapSet(productLocations, toLowerCase(list[1]),
                       findProductLocation(list[1]).location)
           ELSE productLocations
    /\ UNCHANGED <<articles, appCrashed, searchVars, scoreVars, utilVars, navVars, listVars, constructed,
                   visualConstructed, visualProductLocations>>

\* a render of OptimizedShoppingPath and of StoreLayoutVisual inside it: both
\* optimizers are called with items.map(item => item.text)
OptimizeCall(list) ==
    /\ constructed
    /\ visualConstructed
    /\ shoppingList' = list
    /\ optimizedPath' = optimizeShoppingPath(list)
    /\ visualPath' = optimizeShoppingPathVisual(list)
    /\ UNCHANGED <<articles, appCrashed, searchVars, scoreVars, utilVars, navVars, listVars, constructed,
                   productLocations, visualConstructed, visualProductLocations>>

\* the list changes by one item between two renders
AddToList == \E text \in ShoppingTexts :
    /\ Len(shoppingList) < MaxListLen
    /\ OptimizeCall(<<text>> \o shoppingList)
    /\ UNCHANGED firstCall

RemoveFromList == \E i \in 1..Len(shoppingList) :
    /\ OptimizeCall(RemoveAt(shoppingList, i))
    /\ UNCHANGED firstCall

NextPath == AddToList \/ RemoveFromList

SpecPath == InitPath /\ [][NextPath]_vars

CorridorNames(corridors) == [i \in 1..Len(corridors) |-> corridors[i].name]
Ranked(corridor) == corridor \in DOMAIN corridorDistances

\* the names are in non-decreasing order of rank, corridors without a rank
\* left aside
InDistanceOrder(names) ==
    \A i, j \in 1..Len(names) :
        (i < j /\ Ranked(names[i]) /\ Ranked(names[j]))
            => corridorDistances[names[i]] <= corridorDistances[names[j]]

\* C1: the corridors of the path returned by optimizeShoppingPath, of either
\* optimizer, are in non-decreasing order of their rank in corridorDistances
CorridorsInDistanceOrder ==
    /\ InDistanceOrder(CorridorNames(optimizedPath.corridors))
    /\ InDistanceOrder(CorridorNames(visualPath))

\* a list whose first item lies in a corridor farther from the entrance than
\* its second item, both corridors being in the path
CorridorsInDistanceOrderWitness ==
    /\ Len(shoppingList) = 2
    /\ Len(optimizedPath.corridors) = 2
    /\ Len(visualPath) = 2
    /\ LET first == findProductLocation(shoppingList[1]).location.corridor
           second == findProductLocation(shoppingList[2]).location.corridor
       IN  /\ Ranked(first) /\ Ranked(second)
           /\ corridorDistances[first] > corridorDistances[second]

\* C4: a corridor without a rank in corridorDistances comes after every
\* corridor that has one
UnrankedCorridorsLast ==
    \A i, j \in 1..Len(optimizedPath.corridors) :
        (i < j /\ ~Ranked(optimizedPath.corridors[i].name))
            => ~Ranked(optimizedPath.corridors[j].name)

BagOfSeq(seq) ==
    [x \in {seq[i] : i \in 1..Len(seq)} |-> Cardinality({i \in 1..Len(seq) : seq[i] = x})]

\* the names of the items of all corridor visits
VisitedItems(corridors) ==
    Flatten([i \in 1..Len(corridors) |->
                [k \in 1..Len(corridors[i].items) |-> corridors[i].items[k].name]])

Matched(text) == findProductLocation(text).found

\* C2: every entry of the shopping list is in the result exactly as often as
\* in the list: a matched entry among the items of the visit of its corridor,
\* an unmatched entry among the not-found items
EveryEntryCoveredOnce ==
    /\ BagOfSeq(VisitedItems(optimizedPath.corridors)) = BagOfSeq(SelectSeq(shoppingList, Matched))
    /\ BagOfSeq(optimizedPath.notFoundItems)
           = BagOfSeq(SelectSeq(shoppingList, LAMBDA text : ~Matched(text)))
    /\ \A i \in 1..Len(optimizedPath.corridors) :
           \A k \in 1..Len(optimizedPath.corridors[i].items) :
               optimizedPath.corridors[i].items[k].location.corridor
                   = optimizedPath.corridors[i].name
    /\ \A i, j \in 1..Len(optimizedPath.corridors) :
           i # j => optimizedPath.corridors[i].name # optimizedPath.corridors[j].name

\* the same matched text twice in the list, and twice in one corridor visit
EveryEntryCoveredOnceWitness ==
    /\ Len(shoppingList) = 2
    /\ shoppingList[1] = shoppingList[2]
    /\ Matched(shoppingList[1])
    /\ Len(optimizedPath.corridors) = 1
    /\ Len(optimizedPath.corridors[1].items) = 2

\* C5: an entry without a match is among the not-found items, and the
\* corridors of the path are those of the list without that entry
UnmatchedEntryLeavesPathAlone ==
    \A i \in 1..Len(shoppingList) :
        ~Matched(shoppingList[i])
            => /\ \E k \in 1..Len(optimizedPath.notFoundItems) :
                      optimizedPath.notFoundItems[k] = shoppingList[i]
               /\ optimizedPath.corridors
                      = optimizeShoppingPath(RemoveAt(shoppingList, i)).corridors

\* a list of an unmatched entry and a matched one
UnmatchedEntryLeavesPathAloneWitness ==
    /\ Len(shoppingList) = 2
    /\ ~Matched(shoppingList[1])
    /\ Matched(shoppingList[2])
    /\ Len(optimizedPath.corridors) = 1
    /\ optimizedPath.notFoundItems = <<shoppingList[1]>>

\* the product lists of the catalog that are arrays, under the nodes where
\* createProductIndex looks for product lists
RECURSIVE ArraysOfCategories(_)
ArraysOfCategories(categories) ==
    IF categories = <<>> THEN <<>>
    ELSE (IF Head(categories).value.tag = "arr" THEN Head(categories).value.items ELSE <<>>)
             \o ArraysOfCategories(Tail(categories))

RECURSIVE ArraysOfPositions(_)
ArraysOfPositions(positions) ==
    IF positions = <<>> THEN <<>>
    ELSE ArraysOfCategories(Head(positions).value) \o ArraysOfPositions(Tail(positions))

RECURSIVE ArraysOfDirections(_)
ArraysOfDirections(corridorData) ==
    IF corridorData = <<>> THEN <<>>
    ELSE ArraysOfPositions(Head(corridorData).value.positions)
             \o ArraysOfCategories(Head(corridorData).value.categories)
             \o ArraysOfDirections(Tail(corridorData))

RECURSIVE WellFormedProducts(_)
WellFormedProducts(storeData) ==
    IF storeData = <<>> THEN <<>>
    ELSE (IF Head(storeData).key = SeitenM
          THEN ArraysOfCategories(Head(storeData).value)
          ELSE ArraysOfDirections(Head(storeData).value))
             \o WellFormedProducts(Tail(storeData))

\* C6: building the index does not throw, and every product of a well-formed
\* product list is indexed
IndexBuildSkipsMalformedNodesOnly ==
    /\ constructed
    /\ \A i \in 1..Len(WellFormedProducts(articles)) :
           MapHas(productLocations, toLowerCase(WellFormedProducts(articles)[i]))

ListPermutations(n) ==
    {p \in [1..n -> 1..n] : \A i, j \in 1..n : i # j => p[i] # p[j]}

\* C8: every permutation of the shopping list yields the same sequence of
\* corridor names, in either optimizer
CorridorNamesIndependentOfListOrder ==
    \A p \in ListPermutations(Len(shoppingList)) :
        LET permuted == [i \in 1..Len(shoppingList) |-> shoppingList[p[i]]]
        IN  /\ CorridorNames(optimizeShoppingPath(permuted).corridors)
                   = CorridorNames(optimizedPath.corridors)
            /\ CorridorNames(optimizeShoppingPathVisual(permuted)) = CorridorNames(visualPath)

(***************************************************************************)
(* Repeated calls on one optimizer, the first call remembered.             *)
(***************************************************************************)
InitRepeat ==
    /\ articles \in CatalogsUpTo(MaxFewCorridors)
    /\ Constructed

RememberFirst(list) ==
    firstCall' = IF ~firstCall.called
                 THEN [called |-> TRUE, list |-> list, path |-> optimizedPath',
                       visual |-> visualPath', others |-> FALSE]
                 ELSE [firstCall EXCEPT !.others = @ \/ list # firstCall.list]

CallWithOneMore == \E text \in ShoppingTexts :
    /\ Len(shoppingList) < MaxListLen
    /\ OptimizeCall(<<text>> \o shoppingList)
    /\ RememberFirst(<<text>> \o shoppingList)

CallWithOneLess == \E i \in 1..Len(shoppingList) :
    /\ OptimizeCall(RemoveAt(shoppingList, i))
    /\ RememberFirst(RemoveAt(shoppingList, i))

CallAgain ==
    /\ OptimizeCall(shoppingList)
    /\ RememberFirst(shoppingList)

NextRepeat == CallWithOneMore \/ CallWithOneLess \/ CallAgain

SpecRepeat == InitRepeat /\ [][NextRepeat]_vars

EmptyListEmptyPath ==
    (firstCall.called /\ shoppingList = <<>>)
        => /\ optimizedPath.corridors = <<>>
           /\ optimizedPath.notFoundItems = <<>>

\* the optimizer of a catalog with products has been called with an empty
\* list after a call with a list that was not empty
EmptyListEmptyPathWitness ==
    /\ firstCall.called
    /\ firstCall.others
    /\ shoppingList = <<>>
    /\ productLocations # <<>>
    /\ optimizedPath = NoPath

\* the path of the simpler optimizer has the text as an item at the location
PlacedAt(text, location) ==
    \E i \in 1..Len(optimizedPath.corridors) :
        \E k \in 1..Len(optimizedPath.corridors[i].items) :
            /\ optimizedPath.corridors[i].items[k].name = text
            /\ optimizedPath.corridors[i].name = location.corridor
            /\ optimizedPath.corridors[i].items[k].category = location.category
            /\ optimizedPath.corridors[i].items[k].location.corridor = location.corridor
            /\ optimizedPath.corridors[i].items[k].location.direction = location.direction
            /\ optimizedPath.corridors[i].items[k].location.position = location.position

\* the entries of the index whose name has the normalized form of the text
NormalizedMatches(text) ==
    {k \in 1..Len(productLocations) :
        normalizeString(productLocations[k].key) = normalizeString(text)}

Favoured(visit, item) ==
    IF visit.entryPoint = "East" THEN item.location.direction = N
    ELSE item.location.direction = S

\* the names of the items of the visit with the category and the side
NamesWithKeys(visit, category, favoured) ==
    LET same == SelectSeq(visit.items,
                          LAMBDA x : x.category = category /\ Favoured(visit, x) = favoured)
    IN  [k \in 1..Len(same) |-> same[k].name]

\* the entries of the shopping list that the visit has with the category and
\* the side, in the order of the list
ListedWithKeys(visit, category, favoured) ==
    SelectSeq(shoppingList,
              LAMBDA text : \E k \in 1..Len(visit.items) :
                                /\ visit.items[k].name = text
                                /\ visit.items[k].category = category
                                /\ Favoured(visit, visit.items[k]) = favoured)

ItemsInOrder(visit) ==
    /\ \A k, l \in 1..Len(visit.items) :
           k < l => /\ ~StringLess(visit.items[l].category, visit.items[k].category)
                    /\ visit.items[l].category = visit.items[k].category
                           => ~(Favoured(visit, visit.items[l])
                                   /\ ~Favoured(visit, visit.items[k]))
    /\ \A k \in 1..Len(visit.items) : \A favoured \in BOOLEAN :
           NamesWithKeys(visit, visit.items[k].category, favoured)
               = ListedWithKeys(visit, visit.items[k].category, favoured)

\* C23: the items of every corridor visit are in non-decreasing order of
\* category; among items of one category those of direction N come first
\* when the corridor is entered from the East and those of direction S when
\* it is entered from the West; items equal in both are in the order of the
\* shopping list
ItemsSortedByCategoryThenSide ==
    \A i \in 1..Len(optimizedPath.corridors) : ItemsInOrder(optimizedPath.corridors[i])

\* a visit entered from the West has two items of one category, the one of
\* direction S ahead of the one of direction N, which the shopping list has
\* in the other order
ItemsSortedByCategoryThenSideWitness ==
    \E i \in 1..Len(optimizedPath.corridors) :
        /\ optimizedPath.corridors[i].entryPoint = "West"
        /\ Len(optimizedPath.corridors[i].items) = 2
        /\ optimizedPath.corridors[i].items[1].category
               = optimizedPath.corridors[i].items[2].category
        /\ optimizedPath.corridors[i].items[1].location.direction = S
        /\ optimizedPath.corridors[i].items[2].location.direction = N
        /\ shoppingList = <<optimizedPath.corridors[i].items[2].name,
                            optimizedPath.corridors[i].items[1].name>>

\* the corridor names of a path, in its order
NamesOf(visits) == [i \in 1..Len(visits) |-> visits[i].name]

\* C24: for one catalog and one shopping list, the optimizer of
\* StoreLayoutVisual and the optimizer of OptimizedShoppingPath return the
\* same sequence of corridor names
SameCorridorNamesInBoth == NamesOf(visualPath) = NamesOf(optimizedPath.corridors)

ShoppingItem(id, text) == [id |-> id, text |-> text, completed |-> FALSE]

SuggestionLimit == 5

\* an item of the list has this name, in whatever case
InList(list, name) ==
    \E i \in 1..Len(list) : toLowerCase(list[i].text) = toLowerCase(name)

\* what the effect passes to setSuggestions and setShowSuggestions
Suggested(filtered) ==
    [threw |-> FALSE, suggestions |-> filtered, show |-> Len(filtered) > 0]

FilterSuggestionsOf(text, list, allGroceryItems) ==
    IF allGroceryItems.threw
    THEN [threw |-> TRUE, suggestions |-> <<>>, show |-> FALSE]
    ELSE Suggested(SliceFirst(SelectSeq(searchProducts(text, allGroceryItems.items),
                                        LAMBDA item : ~InList(list, item.name)),
                              SuggestionLimit))

\* the effect on [newItem, items]: what it passes to the two setters, or
\* that getAllGroceryItems threw inside it
FilterSuggestions(text, list) ==
    IF Len(trim(text)) > 0
    THEN FilterSuggestionsOf(text, list, getAllGroceryItems(articles))
    ELSE Suggested(<<>>)

ApplySuggestions(effect) ==
    IF effect.threw
    THEN appCrashed' = TRUE /\ UNCHANGED <<suggestions, showSuggestions>>
    ELSE /\ suggestions' = effect.suggestions
         /\ showSuggestions' = effect.show
         /\ UNCHANGED appCrashed

\* the effect runs after the handler that changed newItem or items
SuggestionsEffect == ApplySuggestions(FilterSuggestions(newItem', items'))

InitList ==
    /\ articles \in CatalogsUpTo(MaxFewCorridors)
    /\ InitApp
    /\ InitNoPath
    /\ scoreQuery = <<>>
    /\ scoreItem = <<>>
    /\ scoreResult = NoScore
    /\ InitNoUtil
    /\ InitNoNav

\* onChange of the input of the add-item form
SetNewItem(value) ==
    /\ ~appCrashed
    /\ newItem' = value
    /\ UNCHANGED <<items, editingId, editingText, now>>
    /\ SuggestionsEffect
    /\ UNCHANGED <<articles, searchVars, scoreVars, utilVars, navVars, pathVars, firstCall>>

\* the first catalog item whose name is newItem.trim() in another case
MatchingItem(allItems, text) ==
    LET matches == SelectSeq(allItems, LAMBDA item :
                                 toLowerCase(item.name) = toLowerCase(trim(text)))
    IN  IF matches = <<>> THEN <<>> ELSE <<Head(matches)>>

\* setItems(prev => [item, ...prev])
Prepend(text) == items' = <<ShoppingItem(now, text)>> \o items

\* addItem; without a matching item it only shows an alert
addItem ==
    /\ ~appCrashed
    /\ trim(newItem) # <<>>
    /\ ~getAllGroceryItems(articles).threw
    /\ MatchingItem(getAllGroceryItems(articles).items, newItem) # <<>>
    /\ Len(items) < MaxItems
    /\ Prepend(MatchingItem(getAllGroceryItems(articles).items, newItem)[1].name)
    /\ newItem' = <<>>
    /\ UNCHANGED <<editingId, editingText, now>>
    /\ SuggestionsEffect
    /\ UNCHANGED <<articles, searchVars, scoreVars, utilVars, navVars, pathVars, firstCall>>

\* addSuggestion, from a button of the suggestions dropdown
addSuggestion == \E k \in 1..Len(suggestions) :
    /\ ~appCrashed
    /\ showSuggestions
    /\ Len(items) < MaxItems
    /\ Prepend(suggestions[k].name)
    /\ newItem' = <<>>
    /\ UNCHANGED <<editingId, editingText, now>>
    /\ SuggestionsEffect
    /\ UNCHANGED <<articles, searchVars, scoreVars, utilVars, navVars, pathVars, firstCall>>

\* addProductToShoppingList, from a button of a search result or of a favorite
addProductToShoppingList ==
    /\ ~appCrashed
    /\ ~getAllGroceryItems(articles).threw
    /\ Len(items) < MaxItems
    /\ \E k \in 1..Len(getAllGroceryItems(articles).items) :
           Prepend(getAllGroceryItems(articles).items[k].name)
    /\ UNCHANGED <<newItem, editingId, editingText, now>>
    /\ SuggestionsEffect
    /\ UNCHANGED <<articles, searchVars, scoreVars, utilVars, navVars, pathVars, firstCall>>

\* toggleItem
toggleItem(id) ==
    /\ items' = [i \in 1..Len(items) |->
                    IF items[i].id = id THEN [items[i] EXCEPT !.completed = ~@] ELSE items[i]]
    /\ UNCHANGED <<newItem, editingId, editingText, now>>
    /\ SuggestionsEffect
    /\ UNCHANGED <<articles, searchVars, scoreVars, utilVars, navVars, pathVars, firstCall>>

\* onItemToggle of the navigation view: a checkbox of the item named itemName
onItemToggle == \E k \in 1..Len(items) :
    LET itemName == items[k].text
        item == Head(SelectSeq(items, LAMBDA i : i.text = itemName))
    IN  /\ ~appCrashed
        /\ toggleItem(item.id)

\* deleteItem, from the button of an item that is not being edited
deleteItem == \E k \in 1..Len(items) :
    /\ ~appCrashed
    /\ editingId # <<items[k].id>>
    /\ items' = SelectSeq(items, LAMBDA item : item.id # items[k].id)
    /\ UNCHANGED <<newItem, editingId, editingText, now>>
    /\ SuggestionsEffect
    /\ UNCHANGED <<articles, searchVars, scoreVars, utilVars, navVars, pathVars, firstCall>>

\* startEditing(item.id, item.text), from the button of an item that is not
\* being edited
startEditing == \E k \in 1..Len(items) :
    /\ ~appCrashed
    /\ editingId # <<items[k].id>>
    /\ editingId' = <<items[k].id>>
    /\ editingText' = items[k].text
    /\ UNCHANGED <<items, newItem, showSuggestions, suggestions, now>>
    /\ UNCHANGED <<articles, appCrashed, searchVars, scoreVars, utilVars, navVars, pathVars, firstCall>>

\* onChange of the input of the item that is being edited
SetEditingText(value) ==
    /\ ~appCrashed
    /\ \E k \in 1..Len(items) : editingId = <<items[k].id>>
    /\ editingText' = value
    /\ UNCHANGED <<items, newItem, editingId, showSuggestions, suggestions, now>>
    /\ UNCHANGED <<articles, appCrashed, searchVars, scoreVars, utilVars, navVars, pathVars, firstCall>>

\* saveEdit, on Enter and on blur of that input
saveEdit ==
    /\ ~appCrashed
    /\ trim(editingText) # <<>>
    /\ editingId # <<>>
    /\ items' = [i \in 1..Len(items) |->
                    IF <<items[i].id>> = editingId
                    THEN [items[i] EXCEPT !.text = trim(editingText)] ELSE items[i]]
    /\ editingId' = <<>>
    /\ editingText' = <<>>
    /\ UNCHANGED <<newItem, now>>
    /\ SuggestionsEffect
    /\ UNCHANGED <<articles, searchVars, scoreVars, utilVars, navVars, pathVars, firstCall>>

\* cancelEdit
cancelEdit ==
    /\ ~appCrashed
    /\ editingId # <<>>
    /\ editingId' = <<>>
    /\ editingText' = <<>>
    /\ UNCHANGED <<items, newItem, showSuggestions, suggestions, now>>
    /\ UNCHANGED <<articles, appCrashed, searchVars, scoreVars, utilVars, navVars, pathVars, firstCall>>

\* clearCompleted
clearCompleted ==
    /\ ~appCrashed
    /\ \E k \in 1..Len(items) : items[k].completed
    /\ items' = SelectSeq(items, LAMBDA item : ~item.completed)
    /\ UNCHANGED <<newItem, editingId, editingText, now>>
    /\ SuggestionsEffect
    /\ UNCHANGED <<articles, searchVars, scoreVars, utilVars, navVars, pathVars, firstCall>>

\* a millisecond passes
Tick ==
    /\ now < MaxClock
    /\ now' = now + 1
    /\ UNCHANGED <<items, newItem, editingId, editingText, showSuggestions, suggestions>>
    /\ UNCHANGED <<articles, appCrashed, searchVars, scoreVars, utilVars, navVars, pathVars, firstCall>>

\* the keys typed into the two inputs: a letter of a product name, a
\* character of no product name and a blank
TypedChars == {"a", "-", " "}

\* both inputs are edited one key at a time
TypeNewItem ==
    \/ \E c \in TypedChars : Len(newItem) < MaxTypedLen /\ SetNewItem(Append(newItem, c))
    \/ newItem # <<>> /\ SetNewItem(SubSeq(newItem, 1, Len(newItem) - 1))

TypeEditingText ==
    \/ \E c \in TypedChars :
           Len(editingText) < MaxTypedLen /\ SetEditingText(Append(editingText, c))
    \/ editingText # <<>> /\ SetEditingText(SubSeq(editingText, 1, Len(editingText) - 1))

NextList ==
    \/ TypeNewItem
    \/ addItem
    \/ addSuggestion
    \/ addProductToShoppingList
    \/ onItemToggle
    \/ deleteItem
    \/ startEditing
    \/ TypeEditingText
    \/ saveEdit
    \/ cancelEdit
    \/ clearCompleted
    \/ Tick

SpecList == InitList /\ [][NextList]_vars

\* C3: the text of every item of the shopping list is the name of a product
\* of the catalog
ItemTextsAreCatalogProducts ==
    \A i \in 1..Len(items) :
        \E k \in 1..Len(getAllGroceryItems(articles).items) :
            items[i].text = getAllGroceryItems(articles).items[k].name

(***************************************************************************)
(* getAllGroceryItems applied to any catalog.                              *)
(***************************************************************************)
\* a corridor with a category key that holds the separator of the ids, and
\* with a product of the side aisle at a second place
SeparatorCorridors == {
    Entry(Gang("5"),
          <<Entry(N, Sec(<<Entry(<<"E", "_", "a">>, Arr(<<<<"e", "a">>>>))>>,
                         <<Entry(E, <<Entry(<<"a">>, Arr(<<<<"a", "e">>>>))>>)>>))>>)
}

\* the catalogs of up to n corridors of the pool, with different names
CatalogsFrom(pool, n) ==
    {c \in UNION {[1..k -> pool] : k \in 1..n} :
        \A i, j \in 1..Len(c) : i # j => c[i].key # c[j].key}

InitCatalog ==
    /\ articles \in CatalogsFrom(CorridorPool \cup SeparatorCorridors, MaxCorridors)
    /\ InitApp
    /\ InitNoPath
    /\ scoreQuery = <<>>
    /\ scoreItem = <<>>
    /\ scoreResult = NoScore
    /\ InitNoUtil
    /\ InitNoNav

CallGetAllGroceryItems ==
    /\ catalogItems = <<>>
    /\ catalogItems' = <<getAllGroceryItems(articles)>>
    /\ UNCHANGED <<articles, appCrashed, searchVars, scoreVars, pathVars, firstCall, listVars,
                   distance, normalized, navVars>>

NextCatalog == CallGetAllGroceryItems

SpecCatalog == InitCatalog /\ [][NextCatalog]_vars

\* the number of product strings in the lists of a category map
RECURSIVE CountInCategories(_)
CountInCategories(categories) ==
    IF categories = <<>> THEN 0
    ELSE Len(Head(categories).value.items) + CountInCategories(Tail(categories))

RECURSIVE CountInPositions(_)
CountInPositions(positions) ==
    IF positions = <<>> THEN 0
    ELSE CountInCategories(Head(positions).value) + CountInPositions(Tail(positions))

\* ... in a corridor: its flat lists, and the categories and the positions
\* of its shelf sides
RECURSIVE CountInCorridor(_)
CountInCorridor(gangData) ==
    IF gangData = <<>> THEN 0
    ELSE (IF Head(gangData).value.tag = "arr" THEN Len(Head(gangData).value.items)
          ELSE CountInCategories(Head(gangData).value.categories)
               + CountInPositions(Head(gangData).value.positions))
         + CountInCorridor(Tail(gangData))

RECURSIVE CountInCatalog(_)
CountInCatalog(articlesData) ==
    IF articlesData = <<>> THEN 0
    ELSE CountInCorridor(Head(articlesData).value) + CountInCatalog(Tail(articlesData))

\* getAllGroceryItems returned one entry for every product string of the catalog
OneEntryPerOccurrence ==
    (catalogItems # <<>> /\ ~catalogItems[1].threw)
        => Len(catalogItems[1].items) = CountInCatalog(articles)

\* C11: getAllGroceryItems returns one entry for every product string of the
\* catalog, and no two of the entries have the same id
OneEntryPerOccurrenceWithOwnId ==
    (catalogItems # <<>> /\ ~catalogItems[1].threw)
        => /\ OneEntryPerOccurrence
           /\ \A i, j \in 1..Len(catalogItems[1].items) :
                  i # j => catalogItems[1].items[i].id # catalogItems[1].items[j].id

(***************************************************************************)
(* calculateLevenshteinDistance and normalizeString applied to any strings. *)
(***************************************************************************)
InitUtil ==
    /\ articles = <<>>
    /\ InitApp
    /\ InitNoPath
    /\ scoreQuery \in StringsUpTo(MaxStrLen)
    /\ scoreItem \in StringsUpTo(MaxStrLen)
    /\ scoreResult = NoScore
    /\ InitNoUtil
    /\ InitNoNav

CallLevenshteinDistance ==
    /\ distance = <<>>
    /\ distance' = <<calculateLevenshteinDistance(scoreQuery, scoreItem)>>
    /\ UNCHANGED <<articles, appCrashed, searchVars, scoreVars, pathVars, firstCall, listVars,
                   normalized, catalogItems, navVars>>

CallNormalizeString ==
    /\ normalized = <<>>
    /\ normalized' = <<normalizeString(scoreQuery)>>
    /\ UNCHANGED <<articles, appCrashed, searchVars, scoreVars, pathVars, firstCall, listVars,
                   distance, catalogItems, navVars>>

NextUtil == CallLevenshteinDistance \/ CallNormalizeString

SpecUtil == InitUtil /\ [][NextUtil]_vars

\* the edit distance by its recursive definition: the least number of
\* insertions, deletions and substitutions of one character that turn a into b
RECURSIVE EditDistance(_, _)
EditDistance(a, b) ==
    IF a = <<>> THEN Len(b)
    ELSE IF b = <<>> THEN Len(a)
    ELSE IF Head(a) = Head(b) THEN EditDistance(Tail(a), Tail(b))
    ELSE 1 + Min3(EditDistance(Tail(a), b),
                  EditDistance(a, Tail(b)),
                  EditDistance(Tail(a), Tail(b)))

\* C14: calculateLevenshteinDistance returns the Levenshtein distance of its
\* two arguments, for empty strings as for others
DistanceIsLevenshtein ==
    distance # <<>> => distance[1] = EditDistance(scoreQuery, scoreItem)

\* the distance of two different strings of the greatest length that have a
\* character in common has been computed
DistanceIsLevenshteinWitness ==
    /\ distance # <<>>
    /\ Len(scoreQuery) = MaxStrLen
    /\ Len(scoreItem) = MaxStrLen
    /\ distance[1] > 0
    /\ distance[1] < MaxStrLen

\* the distance of the empty string and a string that is not empty has been
\* computed
DistanceOfEmptyWitness ==
    /\ distance # <<>>
    /\ scoreQuery = <<>>
    /\ distance[1] = MaxStrLen

\* C15: normalizeString applied to a string it returned returns that string
NormalizeIsIdempotent ==
    normalized # <<>> => normalizeString(normalized[1]) = normalized[1]

\* a string with an accent and a special character has been normalized to a
\* string that is not empty
NormalizeIsIdempotentWitness ==
    /\ normalized # <<>>
    /\ normalized[1] # <<>>
    /\ Len(normalized[1]) < Len(scoreQuery)
    /\ \E i \in 1..Len(scoreQuery) : scoreQuery[i] = E_ACUTE

(***************************************************************************)
(* The product search on catalogs with about as many products as a search  *)
(* returns at most.                                                        *)
(***************************************************************************)
\* product k of a long category: "a" followed by k - 1 times "e"
ProductNumber(k) == [i \in 1..k |-> IF i = 1 THEN "a" ELSE "e"]

\* a catalog of one corridor with one category of n products
LongCatalog(n) ==
    <<Entry(Gang("1"),
            <<Entry(N, Sec(<<Entry(<<"a">>, Arr([k \in 1..n |-> ProductNumber(k)]))>>,
                           <<>>))>>)>>

LongCatalogs == {LongCatalog(n) : n \in (SearchLimit - 1)..(SearchLimit + MaxOverLimit)}

InitSearchMany ==
    /\ articles \in LongCatalogs
    /\ InitApp
    /\ InitNoPath
    /\ scoreQuery = <<>>
    /\ scoreItem = <<>>
    /\ scoreResult = NoScore
    /\ InitNoUtil
    /\ InitNoNav

SpecSearchMany == InitSearchMany /\ [][NextSearch]_vars

\* C16: searchProducts returns at most 20 entries, for any query and any
\* number of products in the catalog
AtMostTwentyResults == Len(searchResults) <= SearchLimit

\* a search in which more than 20 products had a score above the threshold
\* returned 20 entries
AtMostTwentyResultsWitness ==
    /\ ~appCrashed
    /\ Len(searchResults) = SearchLimit
    /\ Len(SelectSeq(ScoredItems(searchQuery, getAllGroceryItems(articles).items),
                     AboveThreshold)) > SearchLimit

(***************************************************************************)
(* The two optimizers on a catalog of a side aisle and three corridors     *)
(* with products at both ends, called as the shopping list changes.        *)
(***************************************************************************)
AisleCatalog ==
    <<Entry(SeitenM, <<Entry(<<"a">>, Arr(<<<<"m">>>>))>>),
      Entry(Gang("1"),
            <<Entry(N, Sec(<<Entry(<<"a">>, Arr(<<<<"f">>>>))>>,
                           <<Entry(E, <<Entry(<<"a">>, Arr(<<<<"p">>>>))>>),
                             Entry(W, <<Entry(<<"a">>, Arr(<<<<"q">>>>))>>)>>))>>),
      Entry(Gang("2"),
            <<Entry(S, Sec(<<>>,
                           <<Entry(E, <<Entry(<<"a">>, Arr(<<<<"r">>>>))>>),
                             Entry(W, <<Entry(<<"a">>, Arr(<<<<"s">>>>))>>)>>))>>),
      Entry(Gang("3"),
            <<Entry(N, Sec(<<>>,
                           <<Entry(E, <<Entry(<<"a">>, Arr(<<<<"t">>>>))>>),
                             Entry(W, <<Entry(<<"a">>, Arr(<<<<"u">>>>))>>)>>))>>)>>

\* the names of its products
AisleTexts == {<<"m">>, <<"f">>, <<"p">>, <<"q">>, <<"r">>, <<"s">>, <<"t">>, <<"u">>}

InitAisles ==
    /\ articles = AisleCatalog
    /\ Constructed

AddAisleItem == \E text \in AisleTexts :
    /\ Len(shoppingList) < MaxAisleItems
    /\ OptimizeCall(<<text>> \o shoppingList)
    /\ UNCHANGED firstCall

NextAisles == AddAisleItem \/ RemoveFromList

SpecAisles == InitAisles /\ [][NextAisles]_vars

\* the number of items of a corridor visit that are at an end of the corridor
ItemsAtEnd(visit, end) ==
    Cardinality({i \in 1..Len(visit.items) : visit.items[i].location.position = end})

\* the items of the visit are taken from both ends of the corridor
Traversed(visit) == ItemsAtEnd(visit, E) > 0 /\ ItemsAtEnd(visit, W) > 0

\* all items of the visit are at one end of the corridor
ClusteredAtOneEnd(visit) ==
    \/ ItemsAtEnd(visit, E) = Len(visit.items)
    \/ ItemsAtEnd(visit, W) = Len(visit.items)

\* C17: the exit point of a corridor visit is the end opposite to its entry
\* point when items are taken from both ends of the corridor, and it is the
\* entry point when all items of the corridor are at one end, in the path of
\* either optimizer
ExitOppositeOnlyWhenTraversed ==
    \A i \in 1..Len(optimizedPath.corridors) :
        /\ Traversed(optimizedPath.corridors[i])
               => optimizedPath.corridors[i].exitPoint # optimizedPath.corridors[i].entryPoint
        /\ ClusteredAtOneEnd(optimizedPath.corridors[i])
               => optimizedPath.corridors[i].exitPoint = optimizedPath.corridors[i].entryPoint
        /\ (i <= Len(visualPath) /\ visualPath[i].name = optimizedPath.corridors[i].name)
               => /\ Traversed(optimizedPath.corridors[i])
                         => visualPath[i].exitPoint # visualPath[i].entryPoint
                  /\ ClusteredAtOneEnd(optimizedPath.corridors[i])
                         => visualPath[i].exitPoint = visualPath[i].entryPoint

\* the number of items of a visit counted for an end of the corridor: those at
\* that end and those of categories that span the corridor
CountedFor(visit, end) ==
    Cardinality({i \in 1..Len(visit.items) :
                    visit.items[i].location.position \in {end, <<>>}})

\* visit i of the look-ahead optimizer is to a corridor with shelf sides whose
\* counts are balanced, and visit i + 1 is to a corridor with shelf sides
BalancedBeforeDirectional(i) ==
    /\ i + 1 <= Len(visualPath)
    /\ i + 1 <= Len(optimizedPath.corridors)
    /\ visualPath[i].name = optimizedPath.corridors[i].name
    /\ visualPath[i + 1].name = optimizedPath.corridors[i + 1].name
    /\ visualPath[i].name # SeitenM
    /\ visualPath[i + 1].name # SeitenM
    /\ CountedFor(optimizedPath.corridors[i], E) <= 2 * CountedFor(optimizedPath.corridors[i], W)
    /\ CountedFor(optimizedPath.corridors[i], W) <= 2 * CountedFor(optimizedPath.corridors[i], E)

\* the items of visit i are concentrated at the end: its count is more than
\* 1.5 times the count of the other end
ConcentratedAt(i, end, other) ==
    2 * CountedFor(optimizedPath.corridors[i], end)
        > 3 * CountedFor(optimizedPath.corridors[i], other)

\* C18: in the path of the look-ahead optimizer, a balanced corridor with
\* shelf sides that is followed by a corridor with shelf sides whose items
\* are concentrated at one end is left at that end, wherever the shopper was
\* before it
BalancedCorridorExitsTowardsNext ==
    \A i \in 1..Len(visualPath) :
        BalancedBeforeDirectional(i)
            => /\ ConcentratedAt(i + 1, E, W) => visualPath[i].exitPoint = "East"
               /\ ConcentratedAt(i + 1, W, E) => visualPath[i].exitPoint = "West"

\* the shopping list without the items that are found in the side aisle
WithoutSideAisle(list) ==
    SelectSeq(list, LAMBDA text : ~(/\ findProductLocation(text).found
                                    /\ findProductLocation(text).location.corridor = SeitenM))

\* the corridors with shelf sides of a path and their entry points, in the
\* order of the path
DirectionalEntries(visits) ==
    LET directional == SelectSeq(visits, LAMBDA visit : visit.name # SeitenM)
    IN  [i \in 1..Len(directional) |->
            [name |-> directional[i].name, entryPoint |-> directional[i].entryPoint]]

\* the side aisle is entered from the East in the path
SideAisleFromEast(visits) ==
    \A i \in 1..Len(visits) : visits[i].name = SeitenM => visits[i].entryPoint = "East"

\* the simpler optimizer enters the side aisle from the East and every
\* corridor with shelf sides as it does for the list without the items of the
\* side aisle
SideAisleKeepsPosition ==
    /\ SideAisleFromEast(optimizedPath.corridors)
    /\ DirectionalEntries(optimizedPath.corridors)
           = DirectionalEntries(optimizeShoppingPath(WithoutSideAisle(shoppingList)).corridors)

\* C19: each optimizer enters the side aisle Seiten M from the East, and it
\* enters every corridor with shelf sides from the end from which it enters
\* it when the list has no item of the side aisle
SideAisleKeepsPositionInBoth ==
    /\ SideAisleKeepsPosition
    /\ SideAisleFromEast(visualPath)
    /\ DirectionalEntries(visualPath)
           = DirectionalEntries(optimizeShoppingPathVisual(WithoutSideAisle(shoppingList)))

\* the running position before visit i of the simpler optimizer: East before
\* the first corridor, and the exit point of the last corridor with shelf
\* sides visited before
RECURSIVE RunningPosition(_)
RunningPosition(i) ==
    IF i = 1 THEN "East"
    ELSE IF optimizedPath.corridors[i - 1].name = SeitenM THEN RunningPosition(i - 1)
    ELSE optimizedPath.corridors[i - 1].exitPoint

\* visit i is to a corridor with shelf sides of which neither end has more
\* than 1.5 times the count of the other
BalancedVisit(i) ==
    /\ optimizedPath.corridors[i].name # SeitenM
    /\ ~ConcentratedAt(i, E, W)
    /\ ~ConcentratedAt(i, W, E)

\* C20: the simpler optimizer enters a balanced corridor with shelf sides from
\* the running position, which is East before the first corridor and the
\* exit point of the corridor after each corridor with shelf sides
BalancedEnteredFromRunningPosition ==
    \A i \in 1..Len(optimizedPath.corridors) :
        BalancedVisit(i) => optimizedPath.corridors[i].entryPoint = RunningPosition(i)

\* a balanced corridor was entered from the West after a corridor with shelf
\* sides that was left there, and a balanced corridor was entered from the
\* East
BalancedEnteredFromRunningPositionWitness ==
    /\ \E i \in 2..Len(optimizedPath.corridors) :
           /\ BalancedVisit(i)
           /\ optimizedPath.corridors[i - 1].name # SeitenM
           /\ optimizedPath.corridors[i].entryPoint = "West"
    /\ \E i \in 1..Len(optimizedPath.corridors) :
           /\ BalancedVisit(i)
           /\ optimizedPath.corridors[i].entryPoint = "East"

\* visit i of the look-ahead optimizer is the visit i of the simpler one
SameVisit(i) ==
    /\ i <= Len(visualPath)
    /\ visualPath[i].name = optimizedPath.corridors[i].name

\* the count of an end of visit i is more than twice the count of the other
HeavilyAt(i, end, other) ==
    CountedFor(optimizedPath.corridors[i], end)
        > 2 * CountedFor(optimizedPath.corridors[i], other)

\* C21: a corridor with shelf sides whose count for one end, items without a
\* position counted for both ends, is more than the ratio times the count
\* for the other end is entered from that end whatever the running position
\* is; the ratio is 1.5 in the simpler optimizer and 2 in the look-ahead one
ConcentratedEnteredFromThatEnd ==
    \A i \in 1..Len(optimizedPath.corridors) :
        optimizedPath.corridors[i].name # SeitenM
            => /\ ConcentratedAt(i, E, W) => optimizedPath.corridors[i].entryPoint = "East"
               /\ ConcentratedAt(i, W, E) => optimizedPath.corridors[i].entryPoint = "West"
               /\ (SameVisit(i) /\ HeavilyAt(i, E, W)) => visualPath[i].entryPoint = "East"
               /\ (SameVisit(i) /\ HeavilyAt(i, W, E)) => visualPath[i].entryPoint = "West"

\* a corridor with more items at the West end was entered from the West by
\* both optimizers although the running position was East, and so was, by
\* the simpler optimizer, a corridor with counts 1 and 2, for which only the
\* ratio 1.5 decides
ConcentratedEnteredFromThatEndWitness ==
    /\ \E i \in 1..Len(optimizedPath.corridors) :
           /\ optimizedPath.corridors[i].name # SeitenM
           /\ RunningPosition(i) = "East"
           /\ HeavilyAt(i, W, E)
           /\ SameVisit(i)
           /\ optimizedPath.corridors[i].entryPoint = "West"
           /\ visualPath[i].entryPoint = "West"
    /\ \E i \in 1..Len(optimizedPath.corridors) :
           /\ optimizedPath.corridors[i].name # SeitenM
           /\ RunningPosition(i) = "East"
           /\ ConcentratedAt(i, W, E)
           /\ ~HeavilyAt(i, W, E)
           /\ optimizedPath.corridors[i].entryPoint = "West"

(***************************************************************************)
(* The two optimizers on catalogs that have a product name at more than    *)
(* one location.                                                           *)
(***************************************************************************)
RepeatingCorridors == {
    \* a product of the side aisle that Gang 1 has at a position
    Entry(SeitenM, <<Entry(<<"e">>, Arr(<<<<"a", "a">>>>))>>),
    \* a full-width category and a positioned category on one shelf side
    Entry(Gang("1"),
          <<Entry(N, Sec(<<Entry(<<"a">>, Arr(<<<<"a", "e">>>>))>>,
                         <<Entry(E, <<Entry(<<"a">>, Arr(<<<<"a", "a">>>>))>>)>>))>>),
    \* the product of the full-width category of Gang 1
    Entry(Gang("2"), <<Entry(N, Sec(<<Entry(<<"e">>, Arr(<<<<"A", "e">>>>))>>, <<>>))>>),
    \* one product on both shelf sides, S ahead of N in the data
    Entry(Gang("3"),
          <<Entry(S, Sec(<<Entry(<<"a">>, Arr(<<<<"e", "e">>>>))>>, <<>>)),
            Entry(N, Sec(<<Entry(<<"e">>, Arr(<<<<"e", "e">>>>))>>, <<>>))>>)
}

InitCopies ==
    /\ articles \in CatalogsFrom(RepeatingCorridors, MaxCorridors)
    /\ Constructed

SpecCopies == InitCopies /\ [][NextPath]_vars

(***************************************************************************)
(* The shopping list of App filled from the catalog and shown in the       *)
(* shopping path view.                                                     *)
(***************************************************************************)
\* a mapping of categories to arrays of product names
FlatCategories(categories) ==
    \A i \in 1..Len(categories) : categories[i].value.tag = "arr"

\* the value of a corridor is a flat mapping of categories, or an object of
\* shelf sides N and S with categories and positions
DocumentedFormat(corridorData) ==
    \/ FlatCategories(corridorData)
    \/ \A i \in 1..Len(corridorData) :
           /\ corridorData[i].key \in {N, S}
           /\ corridorData[i].value.tag = "sec"
           /\ FlatCategories(corridorData[i].value.categories)
           /\ \A k \in 1..Len(corridorData[i].value.positions) :
                  FlatCategories(corridorData[i].value.positions[k].value)

InitShop ==
    /\ articles \in {c \in CatalogsUpTo(MaxFewCorridors) :
                        \A i \in 1..Len(c) : DocumentedFormat(c[i].value)}
    /\ Constructed

\* the shopping path view is rendered with items.map(item => item.text)
ShowPath ==
    /\ ~appCrashed
    /\ items # <<>>
    /\ OptimizeCall([i \in 1..Len(items) |-> items[i].text])
    /\ UNCHANGED firstCall

NextShop ==
    \/ TypeNewItem
    \/ addItem
    \/ addSuggestion
    \/ addProductToShoppingList
    \/ Tick
    \/ ShowPath

SpecShop == InitShop /\ [][NextShop]_vars

\* C25: the path of a shopping list that was filled with addItem,
\* addSuggestion and addProductToShoppingList has no item that was not found
AcceptedItemsAreLocated == optimizedPath.notFoundItems = <<>>

(***************************************************************************)
(* The StoreLayoutVisual component: the navigation steps, the items shown  *)
(* under a step and the step the user is at.                               *)
(***************************************************************************)
Texts(items_) == [i \in 1..Len(items_) |-> items_[i].text]

startsWithGang(name) == Len(name) >= 5 /\ SubSeq(name, 1, 5) = <<"G", "a", "n", "g", " ">>

Step(title, location, action, entryPoint, exitPoint) ==
    [title |-> title, location |-> location, action |-> action,
     entryPoint |-> entryPoint, exitPoint |-> exitPoint]

RECURSIVE CorridorSteps(_)
CorridorSteps(path) ==
    IF path = <<>> THEN <<>>
    ELSE LET location == Head(path)
         IN  (IF location.name = SeitenM
              THEN <<Step(location.name, location.name, "visit", "West", "West")>>
              ELSE IF startsWithGang(location.name)
              THEN <<Step(location.name, location.name,
                          IF location.entryPoint = location.exitPoint
                          THEN "visit" ELSE "traverse",
                          location.entryPoint, location.exitPoint)>>
              ELSE <<>>) \o CorridorSteps(Tail(path))

\* getPathSteps of a path of the optimizer; the id of a step is its index,
\* which counts from 0 in the component and from 1 here
getPathSteps(path) ==
    <<Step(<<"S", "t", "a", "r", "t">>, <<"E", "i", "n", "g", "a", "n", "g">>,
           "enter", "", "")>>
        \o CorridorSteps(path)
        \o <<Step(<<"C", "h", "e", "c", "k", "o", "u", "t">>,
                  <<"K", "a", "s", "s", "e", "n">>, "checkout", "", "")>>

\* the test of getItemsForLocation on a product of the catalog and an item
MatchesProduct(product, text) ==
    \/ includes(toLowerCase(product), toLowerCase(text))
    \/ includes(toLowerCase(text), toLowerCase(product))

\* items.forEach of one product: side is the shelf side and, for a
\* positioned category, the corridor end that the component prints
FoundForProduct(product, category, side, direction, items_) ==
    LET matching == SelectSeq(items_, LAMBDA item : MatchesProduct(product, item.text))
    IN  [i \in 1..Len(matching) |->
            [name |-> matching[i].text, category |-> category, side |-> side,
             direction |-> direction, checked |-> matching[i].completed]]

RECURSIVE FoundForProducts(_, _, _, _, _)
FoundForProducts(products, category, side, direction, items_) ==
    IF products = <<>> THEN <<>>
    ELSE FoundForProduct(Head(products), category, side, direction, items_)
             \o FoundForProducts(Tail(products), category, side, direction, items_)

RECURSIVE FoundInCategories(_, _, _, _)
FoundInCategories(categories, side, direction, items_) ==
    IF categories = <<>> THEN Returned(<<>>)
    ELSE AndThen(IF Head(categories).value.tag # "arr" THEN Threw
                 ELSE Returned(FoundForProducts(Head(categories).value.items,
                                                Head(categories).key, side, direction,
                                                items_)),
                 FoundInCategories(Tail(categories), side, direction, items_))

RECURSIVE FoundInPositions(_, _, _)
FoundInPositions(positions, section, items_) ==
    IF positions = <<>> THEN Returned(<<>>)
    ELSE AndThen(FoundInCategories(Head(positions).value, <<section, Head(positions).key>>,
                                   section, items_),
                 FoundInPositions(Tail(positions), section, items_))

\* one round of ['N', 'S'].forEach
FoundInSection(gangData, section, items_) ==
    LET sectionData == Get(gangData, section)
    IN  IF sectionData.tag # "sec" THEN Returned(<<>>)
        ELSE AndThen(FoundInCategories(sectionData.categories, <<section>>, section, items_),
                     FoundInPositions(sectionData.positions, section, items_))

HasCorridor(storeData, location) == \E i \in 1..Len(storeData) : storeData[i].key = location

\* getItemsForLocation: [threw, items], items being foundItems
getItemsForLocation(storeData, location, items_) ==
    IF ~HasCorridor(storeData, location) THEN Returned(<<>>)
    ELSE IF location = SeitenM
    THEN FoundInCategories(Get(storeData, location), <<SeitenM>>, <<>>, items_)
    ELSE IF startsWithGang(location)
    THEN AndThen(FoundInSection(Get(storeData, location), N, items_),
                 FoundInSection(Get(storeData, location), S, items_))
    ELSE Returned(<<>>)

\* renderCurrentStepPath reads steps[i].location for i up to activeStep
RenderThrows(steps_, active) == active # 0 /\ active >= Len(steps_)

\* the effect that saves activeStep runs after a render that did not throw
Rendered(steps_, active) ==
    /\ activeStep' = active
    /\ appCrashed' = RenderThrows(steps_, active)
    /\ storedActiveStep' = IF RenderThrows(steps_, active) THEN storedActiveStep
                           ELSE <<active>>

\* "Einkaufen starten": the shopping path view is rendered and StoreLayoutVisual
\* mounts, activeStep being read from localStorage
MountPath ==
    /\ ~appCrashed
    /\ ~mounted
    /\ items # <<>>
    /\ constructed
    /\ visualConstructed
    /\ mounted' = TRUE
    /\ shoppingList' = Texts(items)
    /\ optimizedPath' = optimizeShoppingPath(Texts(items))
    /\ visualPath' = optimizeShoppingPathVisual(Texts(items))
    /\ steps' = getPathSteps(optimizeShoppingPathVisual(Texts(items)))
    /\ hasStartedNavigation' = FALSE
    /\ lastCompletedStep' = -1
    /\ Rendered(getPathSteps(optimizeShoppingPathVisual(Texts(items))),
                IF storedActiveStep = <<>> THEN 0 ELSE storedActiveStep[1])
    /\ UNCHANGED <<articles, searchVars, scoreVars, utilVars, listVars, firstCall, constructed,
                   productLocations, visualConstructed, visualProductLocations>>

\* "Zurück zur Einkaufsliste": the component unmounts, localStorage stays
LeavePath ==
    /\ ~appCrashed
    /\ mounted
    /\ mounted' = FALSE
    /\ UNCHANGED <<articles, appCrashed, searchVars, scoreVars, utilVars, listVars, firstCall,
                   pathVars, steps, activeStep, hasStartedNavigation, lastCompletedStep,
                   storedActiveStep>>

NavFrame == UNCHANGED <<articles, searchVars, scoreVars, utilVars, listVars, firstCall,
                        pathVars, mounted, steps>>

\* the button with ChevronRight
NextStep ==
    /\ ~appCrashed
    /\ mounted
    /\ activeStep # Len(steps) - 1
    /\ hasStartedNavigation' = TRUE
    /\ lastCompletedStep' = activeStep
    /\ Rendered(steps,
                IF Len(steps) - 1 < activeStep + 1 THEN Len(steps) - 1 ELSE activeStep + 1)
    /\ NavFrame

\* a previous button that takes the step it arrives at for completed
PreviousStepKeepingLast ==
    /\ ~appCrashed
    /\ mounted
    /\ activeStep # 0
    /\ LET newActiveStep == IF activeStep - 1 < 0 THEN 0 ELSE activeStep - 1
       IN  /\ Rendered(steps, newActiveStep)
           /\ IF newActiveStep = 0
              THEN hasStartedNavigation' = FALSE /\ lastCompletedStep' = -1
              ELSE /\ lastCompletedStep' = newActiveStep
                   /\ UNCHANGED hasStartedNavigation
    /\ NavFrame

\* the button with ChevronLeft
PreviousStep ==
    /\ ~appCrashed
    /\ mounted
    /\ activeStep # 0
    /\ LET newActiveStep == IF activeStep - 1 < 0 THEN 0 ELSE activeStep - 1
       IN  /\ Rendered(steps, newActiveStep)
           /\ IF newActiveStep = 0
              THEN hasStartedNavigation' = FALSE /\ lastCompletedStep' = -1
              ELSE /\ lastCompletedStep' = newActiveStep - 1
                   /\ UNCHANGED hasStartedNavigation
    /\ NavFrame

\* shouldShow of steps.map
shouldShow(index) == ~hasStartedNavigation \/ index > lastCompletedStep

\* a click on the step with this index, one of the steps that are shown
ClickStep(index) ==
    /\ ~appCrashed
    /\ mounted
    /\ index \in 0..(Len(steps) - 1)
    /\ shouldShow(index)
    /\ Rendered(steps, index)
    /\ UNCHANGED <<hasStartedNavigation, lastCompletedStep>>
    /\ NavFrame

ClickSomeStep == \E index \in 0..(Len(steps) - 1) : ClickStep(index)

\* the shopping list of the item with index k is printed with a checkbox: in
\* the summary of the last step, or under a shown step with a matching product
HasCheckbox(k) ==
    \/ activeStep = Len(steps) - 1
    \/ \E index \in 0..(Len(steps) - 1) :
           /\ shouldShow(index)
           /\ ~hasStartedNavigation \/ index = activeStep
           /\ \E e \in 1..Len(getItemsForLocation(articles, steps[index + 1].location,
                                                  items).items) :
                  getItemsForLocation(articles, steps[index + 1].location,
                                      items).items[e].name = items[k].text

\* the checkbox of the item with index k is changed to checked:
\* handleItemCheck(item.text, checked), then onItemToggle of ShoppingPathView
CheckItem(k, checked) ==
    /\ ~appCrashed
    /\ mounted
    /\ HasCheckbox(k)
    /\ checked = ~items[k].completed
    /\ toggleItem(Head(SelectSeq(items, LAMBDA i : i.text = items[k].text)).id)

CheckSomeItem == \E k \in 1..Len(items) : \E checked \in BOOLEAN : CheckItem(k, checked)

\* the list is edited in the shopping list view
AddInListView == ~mounted /\ addProductToShoppingList
DeleteInListView == ~mounted /\ deleteItem

InitNav ==
    /\ articles \in CatalogsFrom(RepeatingCorridors, MaxCorridors)
    /\ Constructed

NextNav ==
    \/ AddInListView
    \/ DeleteInListView
    \/ Tick
    \/ MountPath
    \/ LeavePath
    \/ NextStep
    \/ PreviousStep
    \/ ClickSomeStep
    \/ CheckSomeItem

SpecNav == InitNav /\ [][NextNav]_vars

\* the number of entries that the item with index k has under a step of this
\* location: items.forEach pushes the entries of an item whatever the other
\* items are
ListedTimes(k, location) == Len(getItemsForLocation(articles, location, <<items[k]>>).items)

\* C26: in the navigation step list every item of the shopping list that the
\* optimizer assigns to a corridor is listed exactly once under the step of
\* that corridor and is not listed under any other step
ItemsListedUnderTheirStep ==
    mounted =>
        \A k \in 1..Len(items) :
            findProductLocationVisual(items[k].text).found =>
                \A index \in 1..Len(steps) :
                    ListedTimes(k, steps[index].location) =
                        IF steps[index].location
                               = findProductLocationVisual(items[k].text).location.corridor
                        THEN 1 ELSE 0

\* C27: a change of the checkbox of an item in the navigation view to a value
\* gives the completed flag of that item the value and leaves the completed
\* flag of every other item of the shopping list as it was
CheckboxSetsOnlyItsItem ==
    [][\A k \in 1..Len(items) : \A checked \in BOOLEAN :
           CheckItem(k, checked) =>
               /\ items'[k].completed = checked
               /\ \A j \in 1..Len(items) : j # k => items'[j].completed = items[j].completed]_vars

\* C28: while StoreLayoutVisual is shown, activeStep is an index of the step
\* list, so that renderCurrentStepPath reads steps that exist
ActiveStepIsValid ==
    mounted => activeStep \in 0..(Len(steps) - 1)

(***************************************************************************)
(* The navigation on the step list of a shopping list that does not        *)
(* change: the list was loaded from localStorage when App mounted.         *)
(***************************************************************************)
\* the lists of up to n items with these texts, as JSON.parse returns them
SavedLists(texts, n) ==
    {[i \in 1..Len(list) |-> ShoppingItem(i - Len(list), list[i])] :
        list \in UNION {[1..k -> texts] : k \in 1..n}}

ProductNames(storeData) ==
    {getAllGroceryItems(storeData).items[i].name :
        i \in 1..Len(getAllGroceryItems(storeData).items)}

InitWalk ==
    /\ articles \in CatalogsFrom(RepeatingCorridors, MaxCorridors)
    /\ appCrashed = FALSE
    /\ searchQuery = <<>>
    /\ searchResults = <<>>
    /\ items \in SavedLists(ProductNames(articles), MaxItems)
    /\ newItem = <<>>
    /\ editingId = <<>>
    /\ editingText = <<>>
    /\ showSuggestions = FALSE
    /\ suggestions = <<>>
    /\ now = 1
    /\ scoreQuery = <<>>
    /\ scoreItem = <<>>
    /\ scoreResult = NoScore
    /\ InitNoUtil
    /\ InitNoNav
    /\ constructed = ~createProductIndex(articles).threw
    /\ productLocations = createProductIndex(articles).map
    /\ visualConstructed = ~buildProductLocationMap(articles).threw
    /\ visualProductLocations = buildProductLocationMap(articles).map
    /\ shoppingList = <<>>
    /\ optimizedPath = NoPath
    /\ visualPath = <<>>
    /\ firstCall = NoCall

NextWalk ==
    \/ MountPath
    \/ LeavePath
    \/ NextStep
    \/ PreviousStep
    \/ ClickSomeStep

SpecWalk == InitWalk /\ [][NextWalk]_vars

\* C29: on a step list that does not change, the active step is one of the
\* steps that are displayed: once the navigation has started, activeStep is
\* greater than lastCompletedStep
ActiveStepIsDisplayed == mounted /\ hasStartedNavigation => activeStep > lastCompletedStep

\* two steps forward and a click on the step after the next one
ActiveStepIsDisplayedWitness ==
    mounted /\ hasStartedNavigation /\ lastCompletedStep >= 1
        /\ activeStep = lastCompletedStep + 2

(***************************************************************************)
(* Product names that the catalog holds more than once.                    *)
(***************************************************************************)
\* the lowercased names that are indexed more than once
RepeatedNames(entries) ==
    {entries[i].key : i \in {i \in 1..Len(entries) :
                                \E j \in 1..Len(entries) : j # i /\ entries[j].key = entries[i].key}}

\* the location of the occurrence of the name that is indexed last
LastIndexed(entries, name) ==
    entries[CHOOSE i \in 1..Len(entries) :
                /\ entries[i].key = name
                /\ \A j \in (i + 1)..Len(entries) : entries[j].key # name].value

HeldOnce(map, name) == Cardinality({i \in 1..Len(map) : map[i].key = name}) = 1

\* the item of the path is at this location of the index
PlacedAs(item, corridor, location) ==
    /\ corridor = location.corridor
    /\ item.category = location.category
    /\ item.location.corridor = location.corridor
    /\ item.location.direction = location.direction
    /\ item.location.position = location.position

\* every entry of the shopping list with this name is in the path, and where
\* it is in the path it is at this location
AssignedTo(name, location) ==
    \A k \in 1..Len(shoppingList) :
        toLowerCase(shoppingList[k]) = name =>
            /\ \E c \in 1..Len(optimizedPath.corridors) :
                   \E e \in 1..Len(optimizedPath.corridors[c].items) :
                       optimizedPath.corridors[c].items[e].name = shoppingList[k]
            /\ \A c \in 1..Len(optimizedPath.corridors) :
                   \A e \in 1..Len(optimizedPath.corridors[c].items) :
                       optimizedPath.corridors[c].items[e].name = shoppingList[k] =>
                           PlacedAs(optimizedPath.corridors[c].items[e],
                                    optimizedPath.corridors[c].name, location)

AssignedToVisual(name, location) ==
    \A k \in 1..Len(shoppingList) :
        toLowerCase(shoppingList[k]) = name =>
            /\ findProductLocationVisual(shoppingList[k]).found
            /\ findProductLocationVisual(shoppingList[k]).location = location
            /\ \E c \in 1..Len(visualPath) : visualPath[c].name = location.corridor

\* C30: a product name that is at more than one location of the catalog has
\* one location in the index of each optimizer, the location of the
\* occurrence that is indexed last, and every entry of the shopping list that
\* is this name in any case is assigned to that location
RepeatedNameHasLastLocation ==
    /\ \A name \in RepeatedNames(IndexEntries(articles).items) :
           /\ HeldOnce(productLocations, name)
           /\ MapGet(productLocations, name) = LastIndexed(IndexEntries(articles).items, name)
           /\ AssignedTo(name, LastIndexed(IndexEntries(articles).items, name))
    /\ \A name \in RepeatedNames(IndexEntriesVisual(articles).items) :
           /\ HeldOnce(visualProductLocations, name)
           /\ MapGet(visualProductLocations, name)
                  = LastIndexed(IndexEntriesVisual(articles).items, name)
           /\ AssignedToVisual(name, LastIndexed(IndexEntriesVisual(articles).items, name))

\* a name of two corridors is on the shopping list and in the path
RepeatedNameHasLastLocationWitness ==
    \E k \in 1..Len(shoppingList) :
        /\ toLowerCase(shoppingList[k]) \in RepeatedNames(IndexEntries(articles).items)
        /\ \E i \in 1..Len(IndexEntries(articles).items) :
               /\ IndexEntries(articles).items[i].key = toLowerCase(shoppingList[k])
               /\ IndexEntries(articles).items[i].value.corridor
                      # MapGet(productLocations, toLowerCase(shoppingList[k])).corridor
        /\ \E c \in 1..Len(optimizedPath.corridors) :
               optimizedPath.corridors[c].items # <<>>
                   /\ optimizedPath.corridors[c].items[1].name = shoppingList[k]

====
